---- MODULE Spec2Model ----
(***************************************************************************)
(* Model of the code-pilot agent orchestration: McpAgent.run(),            *)
(* McpAgent.continueAfterVerification(), the publish route, the            *)
(* SandboxManager registry with its idle sweep, and the two sandbox        *)
(* backends as far as the orchestrator observes them.                      *)
(*                                                                         *)
(* One action is the code between two awaited external calls: it performs  *)
(* the awaited call (its outcome chosen by the environment) and all the    *)
(* synchronous code, yields included, up to the next awaited call.         *)
(***************************************************************************)
EXTENDS Integers, Sequences, FiniteSets, TLC

(***************************************************************************)
(* Bounds                                                                  *)
(***************************************************************************)
MaxTicks == 2          \* clock ticks explored
MaxManaged == 2        \* sandboxes the SandboxManager may provision itself
MaxFiles == 4          \* length of the longest file list an analysis returns
MaxConfigFiles == 3     \* length of the longest configFiles list of an analysis
MaxDepth == 2           \* directories above the deepest config file
MaxGenerations == 4     \* answers of generateCode prepared for one modifyFile call
MaxEvents == 3          \* events the agent's stream delivers to one /api/code request
MaxTermTicks == 3       \* clock ticks of the terminal session manager
MaxPtys == 3            \* shell processes spawned by the terminal session manager

(***************************************************************************)
(* Program constants                                                       *)
(***************************************************************************)
SANDBOX_TIMEOUT == 10 * 60 * 1000     \* SandboxManager.SANDBOX_TIMEOUT (ms)
AGENT_TIMEOUT == 10 * 60 * 1000       \* registerAgentForSession setTimeout (ms)
TickMs == 6 * 60 * 1000               \* one clock tick: six sweep intervals (ms)
FallbackSlice == 3                    \* slice(0, 3) of the fallback plans

SessionId == "session-1"              \* this.sessionId of the one agent
NoSession == "undefined"
BranchName == "codepilot/ts"          \* `codepilot/${Date.now()}` of the run
MainBranch == "main"
NoBranch == "undefined"

AgentSb == 1                          \* the sandbox the constructor created
SandboxIds == 1..(1 + MaxManaged)

VARIABLES
  useE2B,                \* get('USE_E2B_SANDBOX') === 'true'
  verificationMode,      \* McpAgent.verificationMode
  consumer,              \* who iterates run(): "route" (/api/code) or "drain"
  now,                   \* Date.now()
  sb,                    \* the sandbox objects
  nextSb,                \* next sandbox object the manager constructs
  sandboxes,             \* SandboxManager.sandboxes: sessionId -> entry
  activeAgents,          \* publish route: sessionId -> registration time
  agentSandbox,          \* McpAgent.sandbox (a sandbox id)
  verificationSessionId, \* McpAgent.verificationSessionId
  plan,                  \* McpAgent.plan
  runPc,                 \* position of run()
  events,                \* events yielded by run(), in order
  analysis,              \* the analysis of analyzeRepository (while planning)
  cloneResult,           \* run(): the result of clone_repository
  commitPhase,           \* run(): hasChanges, addResult and commitResult
  failed,                \* run(): has a call of the generator in progress failed
                         \* (the tolerated git_status probes apart)
  calls,                 \* invocations per operation, over the whole session
  req,                   \* the publish (resume) requests
  box,                   \* one sandbox object driven through its lifecycle
  pathCall,              \* one call of a path-accepting sandbox tool
  loop,                  \* one call of OpenAIClient.executeWithTools
  calc                   \* one application of a function of the agent

agentVars == << useE2B, verificationMode, consumer, now, sb, nextSb,
                sandboxes, activeAgents, agentSandbox, verificationSessionId, plan,
                runPc, events, analysis, cloneResult, commitPhase, failed, calls,
                req >>

\* the components that are exercised on their own
elsewhere == << box, pathCall, loop, calc >>

vars == << agentVars, elsewhere >>

(***************************************************************************)
(* Stream events                                                           *)
(***************************************************************************)
NoData == [sessionId |-> NoSession, branchName |-> NoBranch, filesChanged |-> << >>]

Ev(t) == [type |-> t, msg |-> << >>, data |-> NoData]

\* an event that carries a progress value
EvP(t, p) == [type |-> t, msg |-> << >>, data |-> NoData, progress |-> p]

ErrEv(m) == [type |-> "error", msg |-> m, data |-> NoData]

\* the same message under the type 'debug'
AgentFailedAsDebug(m) == [type |-> "debug", msg |-> <<"Agent", "failed">> \o m, data |-> NoData]

\* `Agent failed: ${error.message}` of the top-level catch of run()
AgentFailed(m) == ErrEv(<<"Agent", "failed">> \o m)

(***************************************************************************)
(* Sandbox backends                                                        *)
(***************************************************************************)
E2BTools == {"clone_repository", "list_files", "read_file", "write_file",
             "git_add", "git_commit", "git_push", "git_branch"}

VirtualTools == {"clone_repository", "read_file", "write_file", "list_files",
                 "delete_file", "git_status", "git_add", "git_commit",
                 "git_branch", "git_push", "git_apply_patch", "git_revert",
                 "execute_shell", "get_package_info"}

\* Virtual tools that resolve params.repoPath with getSecurePath before
\* their try block: path.resolve(workDir, undefined) raises a TypeError,
\* which VirtualSandbox.callTool turns into success=false.
RepoPathTools == {"git_status", "git_add", "git_commit", "git_branch", "git_push"}

Catalogue(kind) == IF kind = "e2b" THEN E2BTools ELSE VirtualTools

NewSandbox(kind) ==
  [kind |-> kind, isInitialized |-> FALSE, env |-> FALSE,
   provisions |-> 0, cleanups |-> 0, kills |-> 0]

NoSandbox == NewSandbox("none")

\* initialize() without its `if (this.isInitialized) return`
InitializeUnguarded(s) ==
  [s EXCEPT !.isInitialized = TRUE, !.env = TRUE, !.provisions = @ + 1]

\* initialize() when provisioning succeeds
Initialize(s) ==
  IF s.isInitialized THEN s
  ELSE [s EXCEPT !.isInitialized = TRUE, !.env = TRUE, !.provisions = @ + 1]

\* cleanup(): E2B kills the container if it holds one; the virtual sandbox
\* removes its directory if it exists
Cleanup(s) ==
  [s EXCEPT !.isInitialized = FALSE, !.env = FALSE,
            !.cleanups = @ + 1,
            !.kills = IF s.env THEN @ + 1 ELSE @]

\* The possible outcomes of callTool(tool, params) on sandbox s, as pairs
\* <<result, provisioned>>: result is "ok" (success=true), "fail"
\* (success=false) or "throw"; provisioned tells whether the call
\* provisioned the environment on the way (ensureSandbox / initialize).
ToolOutcomes(s, tool, hasRepoPath) ==
  LET inCat == tool \in Catalogue(s.kind)
      results == IF ~inCat THEN {"throw"}
                 ELSE IF s.kind = "virtual" /\ tool \in RepoPathTools /\ ~hasRepoPath
                      THEN {"fail"}
                      ELSE {"ok", "fail"}
  IN  IF s.isInitialized THEN {<<r, FALSE>> : r \in results}
      ELSE IF s.kind = "e2b" /\ ~inCat THEN {<<"throw", FALSE>>}
      ELSE {<<r, TRUE>> : r \in results} \cup {<<"throw", FALSE>>}

AfterCall(id, o) == IF o[2] THEN [sb EXCEPT ![id] = Initialize(@)] ELSE sb

Invoked(op) == [calls EXCEPT ![op] = @ + 1]

TrackedOps == {"clone_repository", "list_files", "git_branch", "git_add",
               "git_commit", "git_push", "createPullRequest", "implement_tools"}

(***************************************************************************)
(* Repository analysis and plans                                           *)
(***************************************************************************)
FileSeq(tag, n) == [i \in 1..n |-> <<tag, i>>]

Slice(s, n) == SubSeq(s, 1, IF Len(s) < n THEN Len(s) ELSE n)

BackendChoices == {<< >>, FileSeq("backend", MaxFiles)}
FrontendChoices == {<< >>, FileSeq("frontend", 1)}
KeyChoices == {<< >>, FileSeq("key", 2)}

NoAnalysis == [backendFiles |-> << >>, frontendFiles |-> << >>, keyFiles |-> << >>]

\* run() before its commit phase: hasChanges, addResult, commitResult
NoPhase == [status |-> "none", hasChanges |-> FALSE, add |-> "none", commit |-> "none",
            skipped |-> FALSE]

NoPlan == [set |-> FALSE, filesToModify |-> << >>, newFiles |-> << >>]

MkPlan(m, n) == [set |-> TRUE, filesToModify |-> m, newFiles |-> n]

(* createPlan: the answer of the planning LLM call.  kind is "api_error"   *)
(* (executeWithTools throws), "no_json" (no JSON object in the answer),    *)
(* "bad_json" (JSON.parse throws) or "json"; for "json", hasFiles tells    *)
(* whether filesToModify is present, hasSteps whether a steps array is.    *)
PlanAnswer(kind, hasFiles, files, newFiles, hasSteps, stepFiles) ==
  [kind |-> kind, hasFiles |-> hasFiles, files |-> files, newFiles |-> newFiles,
   hasSteps |-> hasSteps, stepFiles |-> stepFiles]

PlanAnswers ==
  {PlanAnswer(k, FALSE, << >>, << >>, FALSE, << >>) : k \in {"api_error", "no_json", "bad_json"}}
  \cup {PlanAnswer("json", hf, f, n, hs, st) :
          hf \in BOOLEAN, f \in {<< >>, FileSeq("mod", 1)},
          n \in {<< >>, FileSeq("new", 1)},
          hs \in BOOLEAN, st \in {FileSeq("mod", 1)}}

NoFiles(a) == ~a.hasFiles \/ a.files = << >>

\* files collected from aiPlan.steps when filesToModify is missing or empty
StepsApplied(a) ==
  IF a.hasSteps /\ NoFiles(a)
  THEN [a EXCEPT !.hasFiles = TRUE, !.files = a.stepFiles]
  ELSE a

\* the focus fallback inside the try block of createPlan
FocusApplied(a, an, focus) ==
  IF NoFiles(a)
  THEN IF focus[1] /\ an.backendFiles # << >>
       THEN [a EXCEPT !.hasFiles = TRUE, !.files = Slice(an.backendFiles, FallbackSlice)]
       ELSE IF focus[2] /\ an.frontendFiles # << >>
            THEN [a EXCEPT !.hasFiles = TRUE, !.files = Slice(an.frontendFiles, FallbackSlice)]
            ELSE a
  ELSE a

\* 'AI planner returned an empty plan' is thrown for these
EmptyAiPlan(a) == ~a.hasFiles \/ (a.files = << >> /\ a.newFiles = << >>)

\* a fallback that looks at the key files only
FallbackPlanKeyFiles(an, focus) == MkPlan(Slice(an.keyFiles, FallbackSlice), << >>)

\* the plan built in the catch block of createPlan
FallbackPlan(an, focus) ==
  IF focus[1] /\ an.backendFiles # << >>
  THEN MkPlan(Slice(an.backendFiles, FallbackSlice), << >>)
  ELSE IF focus[2] /\ an.frontendFiles # << >>
       THEN MkPlan(Slice(an.frontendFiles, FallbackSlice), << >>)
       ELSE MkPlan(Slice(an.keyFiles, FallbackSlice), << >>)

CreatePlan(ans, an, focus) ==
  LET a == FocusApplied(StepsApplied(ans), an, focus)
  IN  IF ans.kind # "json" \/ EmptyAiPlan(a)
      THEN FallbackPlan(an, focus)
      ELSE MkPlan(a.files, a.newFiles)

PlanSize(p) == Len(p.filesToModify) + Len(p.newFiles)

(***************************************************************************)
(* Initial state: one agent has been constructed                           *)
(***************************************************************************)
Requests == {1, 2}

NoEntry == [has |-> FALSE, sandbox |-> 0, lastActivity |-> 0]

Entry(id, t) == [has |-> TRUE, sandbox |-> id, lastActivity |-> t]

\* registerSandbox: keeps an existing entry
RegisterSandbox(reg, s, id, t) ==
  IF reg[s].has THEN reg ELSE [reg EXCEPT ![s] = Entry(id, t)]

NoAgent == [has |-> FALSE, timer |-> -1]

IdleReq == [pc |-> "idle", branch |-> NoBranch, events |-> << >>,
            entered |-> FALSE, made |-> 0, tornDown |-> 0]

AgentInit ==
  /\ useE2B \in BOOLEAN
  /\ verificationMode \in BOOLEAN
  /\ consumer \in {"route", "drain"}
  /\ now = 0
  /\ sb = [i \in SandboxIds |->
             IF i = AgentSb THEN NewSandbox(IF useE2B THEN "e2b" ELSE "virtual")
             ELSE NoSandbox]
  /\ nextSb = AgentSb + 1
  /\ sandboxes = IF useE2B
                 THEN RegisterSandbox([s \in {SessionId} |-> NoEntry], SessionId, AgentSb, now)
                 ELSE [s \in {SessionId} |-> NoEntry]
  /\ activeAgents = [s \in {SessionId} |-> NoAgent]
  /\ agentSandbox = AgentSb
  /\ verificationSessionId = NoSession
  /\ plan = NoPlan
  /\ runPc = "initialize"
  /\ events = << >>
  /\ analysis = NoAnalysis
  /\ cloneResult = "none"
  /\ commitPhase = NoPhase
  /\ failed = FALSE
  /\ calls = [op \in TrackedOps |-> 0]
  /\ req = [r \in Requests |-> IdleReq]

\* the agent and its routes at rest, for the components exercised on their own
AgentParked ==
  /\ AgentInit
  /\ ~useE2B /\ ~verificationMode /\ consumer = "drain"

NoCall == [pc |-> "off"]

Init ==
  /\ AgentInit
  /\ box = NoCall /\ pathCall = NoCall /\ loop = NoCall /\ calc = NoCall

cfg == << useE2B, verificationMode, consumer >>

others == << now, nextSb, sandboxes, req, cloneResult, commitPhase >>

(***************************************************************************)
(* McpAgent.run()                                                          *)
(***************************************************************************)
ProvisionFailed == <<"Failed", "to", "initialize", "sandbox">>

\* an error reaches the catch block of run(): one error event, then finally
RunFails(evs, m) ==
  /\ events' = evs \o << AgentFailed(m) >>
  /\ failed' = TRUE
  /\ runPc' = "finally"

\* executeWithTools lets the model call sandbox tools, which provision the
\* environment when the sandbox is not initialized
LLMToolUse(id) == {sb, [sb EXCEPT ![id] = Initialize(@)]}

RunInitialize ==
  /\ runPc = "initialize"
  /\ \E ok \in BOOLEAN :
       IF ok
       THEN /\ sb' = [sb EXCEPT ![agentSandbox] = Initialize(@)]
            /\ events' = events \o << Ev("start"), Ev("sandbox_create"), EvP("progress", 10) >>
            /\ runPc' = "clone"
            /\ failed' = failed
       ELSE /\ sb' = sb
            /\ RunFails(events \o << Ev("start") >>, ProvisionFailed)
  /\ UNCHANGED << elsewhere, cfg, others, activeAgents, agentSandbox, verificationSessionId,
                  plan, analysis, calls >>

\* `Failed to clone repository: ${cloneResult.error}`
CloneFailed == <<"Failed", "to", "clone", "repository", "tool-error">>

\* a run that goes on whatever clone_repository returned
CloneIsFatalNever(success) == FALSE

\* if (!cloneResult.success) throw
CloneIsFatal(success) == ~success

RunClone ==
  /\ runPc = "clone"
  /\ \E o \in ToolOutcomes(sb[agentSandbox], "clone_repository", TRUE) :
       /\ sb' = AfterCall(agentSandbox, o)
       /\ cloneResult' = IF o[1] = "throw" THEN cloneResult ELSE o[1]
       /\ IF o[1] = "throw"
          THEN RunFails(events, ProvisionFailed)
          ELSE IF CloneIsFatal(o[1] = "ok")
               THEN RunFails(events, CloneFailed)
               ELSE /\ events' = events \o << EvP("progress", 20), Ev("analyze") >>
                    /\ runPc' = "list_files"
                    /\ failed' = IF o[1] = "ok" THEN failed ELSE TRUE
  /\ calls' = Invoked("clone_repository")
  /\ UNCHANGED << elsewhere, cfg, now, nextSb, sandboxes, req, activeAgents, agentSandbox,
                  verificationSessionId, plan, analysis, commitPhase >>

RunListFiles ==
  /\ runPc = "list_files"
  /\ \E o \in ToolOutcomes(sb[agentSandbox], "list_files", TRUE) :
       /\ sb' = AfterCall(agentSandbox, o)
       /\ CASE o[1] = "ok" ->
                 /\ events' = events \o << Ev("analyze") >>
                 /\ runPc' = "analyzeLLM"
                 /\ failed' = failed
            [] o[1] = "fail" ->
                 RunFails(events, <<"Failed", "to", "list", "files", "in", "the", "repository">>)
            [] o[1] = "throw" ->
                 RunFails(events, ProvisionFailed)
  /\ calls' = Invoked("list_files")
  /\ UNCHANGED << elsewhere, cfg, others, activeAgents, agentSandbox, verificationSessionId,
                  plan, analysis >>

\* analyzeRepositoryWithLLM and the use of its result: an answer that is a
\* JSON object without configFiles makes analyzeRepository raise a TypeError
RunAnalyzeLLM ==
  /\ runPc = "analyzeLLM"
  /\ sb' \in LLMToolUse(agentSandbox)
  /\ \E ans \in {"api_error", "no_json", "json", "partial"} :
       IF ans = "partial"
       THEN /\ RunFails(events, <<"Cannot", "read", "properties", "of", "undefined">>)
            /\ analysis' = analysis
       ELSE /\ \E b \in BackendChoices, f \in FrontendChoices, k \in KeyChoices :
                 analysis' = [backendFiles |-> b, frontendFiles |-> f, keyFiles |-> k]
            /\ \E hasPkg \in BOOLEAN :
                 runPc' = IF hasPkg THEN "read_pkg" ELSE "git_status_probe"
            /\ events' = events
            /\ failed' = IF ans = "api_error" THEN TRUE ELSE failed
  /\ UNCHANGED << elsewhere, cfg, others, activeAgents, agentSandbox, verificationSessionId,
                  plan, calls >>

RunReadPkg ==
  /\ runPc = "read_pkg"
  /\ \E o \in ToolOutcomes(sb[agentSandbox], "read_file", TRUE) :
       /\ sb' = AfterCall(agentSandbox, o)
       /\ IF o[1] = "throw"
          THEN RunFails(events, ProvisionFailed)
          ELSE /\ events' = events
               /\ runPc' = "git_status_probe"
               /\ failed' = IF o[1] = "ok" THEN failed ELSE TRUE
  /\ UNCHANGED << elsewhere, cfg, others, activeAgents, agentSandbox, verificationSessionId,
                  plan, analysis, calls >>

\* the git_status probe of analyzeRepository sits in a try/catch; its data
\* is never a string, so defaultBranch stays 'main'
RunGitStatusProbe ==
  /\ runPc = "git_status_probe"
  /\ \E o \in ToolOutcomes(sb[agentSandbox], "git_status", TRUE) :
       /\ sb' = AfterCall(agentSandbox, o)
       /\ failed' = failed
  /\ events' = events \o << Ev("analyze"), EvP("analysis_update", 40), Ev("plan") >>
  /\ runPc' = "planLLM"
  /\ UNCHANGED << elsewhere, cfg, others, activeAgents, agentSandbox, verificationSessionId,
                  plan, analysis, calls >>

\* createPlan; focus is <<isBackendFocused, isFrontendFocused>> of the
\* prompt, which nothing else depends on.  createPlan never throws, so the
\* catch block of run() around it is dead.
RunPlanLLM ==
  /\ runPc = "planLLM"
  /\ sb' \in LLMToolUse(agentSandbox)
  /\ \E ans \in PlanAnswers, focus \in BOOLEAN \X BOOLEAN :
       /\ plan' = CreatePlan(ans, analysis, focus)
       /\ failed' = IF ans.kind = "api_error" THEN TRUE ELSE failed
  /\ analysis' = NoAnalysis
  /\ events' = events \o << Ev("plan"), Ev("plan"), EvP("progress", 50), EvP("progress", 80) >>
  /\ runPc' = "git_branch"
  /\ UNCHANGED << elsewhere, cfg, others, activeAgents, agentSandbox, verificationSessionId, calls >>

RunGitBranch ==
  /\ runPc = "git_branch"
  /\ \E o \in ToolOutcomes(sb[agentSandbox], "git_branch", FALSE) :
       /\ sb' = AfterCall(agentSandbox, o)
       /\ CASE o[1] = "ok" ->
                 /\ events' = events \o << EvP("progress", 60), Ev("implement"),
                                           Ev("implement"), Ev("implement") >>
                 /\ runPc' = "implLLM"
                 /\ failed' = failed
            [] o[1] = "fail" ->
                 RunFails(events, <<"Failed", "to", "create", "branch", "tool-error">>)
            [] o[1] = "throw" ->
                 RunFails(events, ProvisionFailed)
  /\ calls' = Invoked("git_branch")
  /\ UNCHANGED << elsewhere, cfg, others, activeAgents, agentSandbox, verificationSessionId,
                  plan, analysis >>

ImplementationFailed == ErrEv(<<"Implementation", "failed", "llm-error">>)

\* The error events of a failing implementWithTools: its own catch yields
\* one and rethrows, the catch of implementPlan yields one and rethrows, the
\* catch of run() yields the third.  A consumer that stops at the first
\* error event returns the generator there.
ImplementErrors(stopsAtError) ==
  IF stopsAtError
  THEN << ImplementationFailed >>
  ELSE << ImplementationFailed, ImplementationFailed,
          AgentFailed(<<"llm-error">>) >>

\* implementPlan / implementWithTools: one executeWithTools call
RunImplement ==
  /\ runPc = "implLLM"
  /\ sb' \in LLMToolUse(agentSandbox)
  /\ \E ok \in BOOLEAN :
       IF ok
       THEN /\ events' = events \o << Ev("implement"), Ev("implement"),
                                      EvP("progress", 85), Ev("debug") >>
            /\ runPc' = "git_status"
            /\ failed' = failed
       ELSE /\ events' = events \o ImplementErrors(consumer = "route")
            /\ runPc' = "finally"
            /\ failed' = TRUE
  /\ calls' = Invoked("implement_tools")
  /\ UNCHANGED << elsewhere, cfg, others, activeAgents, agentSandbox, verificationSessionId,
                  plan, analysis >>

\* a checkForChanges that believes a git_status that did not succeed
checkForChangesTrusting(status, reportsChanges) ==
  status = "ok" /\ reportsChanges

\* checkForChanges: result.data?.hasChanges === true when git_status returned
\* success, true when it threw or returned success=false
checkForChanges(status, reportsChanges) ==
  IF status = "ok" THEN reportsChanges ELSE TRUE

\* checkForChanges, and the yield before git_add
RunGitStatus ==
  /\ runPc = "git_status"
  /\ \E o \in ToolOutcomes(sb[agentSandbox], "git_status", TRUE), reported \in BOOLEAN :
       LET hasChanges == checkForChanges(o[1], reported)
       IN  /\ sb' = AfterCall(agentSandbox, o)
           /\ failed' = failed
           /\ commitPhase' = [commitPhase EXCEPT !.status = o[1], !.hasChanges = hasChanges]
           /\ IF hasChanges
              THEN /\ events' = events \o << Ev(IF o[1] = "ok" THEN "file_change" ELSE "debug"),
                                             Ev("tool_call") >>
                   /\ runPc' = "git_add"
              ELSE /\ events' = events \o << Ev("debug") >>
                   /\ runPc' = "decide"
  /\ UNCHANGED << elsewhere, cfg, now, nextSb, sandboxes, req, cloneResult, activeAgents, agentSandbox,
                  verificationSessionId, plan, analysis, calls >>

RunGitAdd ==
  /\ runPc = "git_add"
  /\ \E o \in ToolOutcomes(sb[agentSandbox], "git_add", TRUE) :
       /\ sb' = AfterCall(agentSandbox, o)
       /\ CASE o[1] = "ok" ->
                 /\ events' = events \o << Ev("tool_call") >>
                 /\ runPc' = "git_commit"
                 /\ failed' = failed
            [] o[1] = "fail" ->
                 RunFails(events, <<"Failed", "to", "stage", "changes", "tool-error">>)
            [] o[1] = "throw" ->
                 RunFails(events, ProvisionFailed)
       /\ commitPhase' = [commitPhase EXCEPT !.add = o[1]]
  /\ calls' = Invoked("git_add")
  /\ UNCHANGED << elsewhere, cfg, now, nextSb, sandboxes, req, cloneResult, activeAgents, agentSandbox,
                  verificationSessionId, plan, analysis >>

\* a commit check that does not look at data.skipped
CommitIsErrorIgnoresSkipped(success, skipped) == ~success

\* !commitResult.success && !commitResult.data?.skipped
CommitIsError(success, skipped) == ~success /\ ~skipped

RunGitCommit ==
  /\ runPc = "git_commit"
  /\ \E o \in ToolOutcomes(sb[agentSandbox], "git_commit", TRUE), skipped \in BOOLEAN :
       /\ sb' = AfterCall(agentSandbox, o)
       /\ IF o[1] = "throw"
          THEN RunFails(events, ProvisionFailed)
          ELSE IF CommitIsError(o[1] = "ok", skipped)
               THEN RunFails(events, <<"Failed", "to", "commit", "changes", "tool-error">>)
               ELSE /\ events' = events
                    /\ runPc' = "decide"
                    /\ failed' = IF o[1] = "ok" THEN failed ELSE TRUE
       /\ commitPhase' = [commitPhase EXCEPT !.commit = o[1],
                                             !.skipped = o[1] # "throw" /\ skipped]
  /\ calls' = Invoked("git_commit")
  /\ UNCHANGED << elsewhere, cfg, now, nextSb, sandboxes, req, cloneResult, activeAgents, agentSandbox,
                  verificationSessionId, plan, analysis >>

\* a finally block that ignores the mode
FinallyCleansUpAlways(verification) == TRUE

\* the finally block of run(): cleanup unless the agent is in verification mode
FinallyCleansUp(verification) == ~verification

\* the pause announced under a type of the declared EventTypes
PauseEventAsPing ==
  [type |-> "ping", msg |-> << >>,
   data |-> [sessionId |-> SessionId, branchName |-> BranchName,
             filesChanged |-> plan.filesToModify \o plan.newFiles],
   progress |-> 85]

PauseEvent ==
  [type |-> "pause_for_verification", msg |-> << >>,
   data |-> [sessionId |-> SessionId, branchName |-> BranchName,
             filesChanged |-> plan.filesToModify \o plan.newFiles],
   progress |-> 85]

\* registerAgentForSession, called by /api/code on pause_for_verification
RegisterAgent(s) == [activeAgents EXCEPT ![s] = [has |-> TRUE, timer |-> now + AGENT_TIMEOUT]]

\* After the commit phase: pause (verification mode) or go on to push.  On
\* the pause path the generator returns through the finally block at once.
\* The results of the commit phase are not read again.
RunDecide ==
  /\ runPc = "decide"
  /\ IF verificationMode
     THEN /\ verificationSessionId' = SessionId
          /\ events' = events \o << PauseEvent >>
          /\ activeAgents' = IF consumer = "route" THEN RegisterAgent(SessionId)
                             ELSE activeAgents
          /\ IF FinallyCleansUp(verificationMode)
             THEN sb' = [sb EXCEPT ![agentSandbox] = Cleanup(@)]
             ELSE sb' = sb
          /\ runPc' = "done"
          /\ failed' = FALSE
     ELSE /\ events' = events \o << EvP("progress", 90) >>
          /\ runPc' = "git_push"
          /\ UNCHANGED << verificationSessionId, activeAgents, sb, failed >>
  /\ commitPhase' = NoPhase
  /\ UNCHANGED << elsewhere, cfg, now, nextSb, sandboxes, req, cloneResult, agentSandbox, plan, analysis,
                  calls >>

RunGitPush ==
  /\ runPc = "git_push"
  /\ \E o \in ToolOutcomes(sb[agentSandbox], "git_push", FALSE) :
       /\ sb' = AfterCall(agentSandbox, o)
       /\ CASE o[1] = "ok" ->
                 /\ events' = events \o << EvP("progress", 95), Ev("pr_create") >>
                 /\ runPc' = "prDetails"
                 /\ failed' = failed
            [] o[1] = "fail" ->
                 RunFails(events, <<"Failed", "to", "push", "changes", "tool-error">>)
            [] o[1] = "throw" ->
                 RunFails(events, ProvisionFailed)
  /\ calls' = Invoked("git_push")
  /\ UNCHANGED << elsewhere, cfg, others, activeAgents, agentSandbox, verificationSessionId,
                  plan, analysis >>

\* generatePrDetails: an LLM failure is replaced by templated text
RunPrDetails ==
  /\ runPc = "prDetails"
  /\ \E ok \in BOOLEAN :
       failed' = IF ok THEN failed ELSE TRUE
  /\ runPc' = "createPR"
  /\ UNCHANGED << elsewhere, cfg, others, sb, activeAgents, agentSandbox, verificationSessionId,
                  plan, events, analysis, calls >>

PrFailed == ErrEv(<<"Failed", "to", "create", "PR", "github-error">>)

\* the two yields in the other order
PrCreatedCompleteFirst == << EvP("complete", 100), Ev("pr_created") >>

\* the yields after createPullRequest has returned the URL
PrCreated == << Ev("pr_created"), EvP("complete", 100) >>

RunCreatePR ==
  /\ runPc = "createPR"
  /\ \E ok \in BOOLEAN :
       IF ok
       THEN /\ events' = events \o PrCreated
            /\ failed' = failed
       ELSE /\ events' = events \o << PrFailed >>
            /\ failed' = TRUE
  /\ calls' = Invoked("createPullRequest")
  /\ runPc' = "finally"
  /\ UNCHANGED << elsewhere, cfg, others, sb, activeAgents, agentSandbox, verificationSessionId,
                  plan, analysis >>

RunFinally ==
  /\ runPc = "finally"
  /\ IF FinallyCleansUp(verificationMode)
     THEN sb' = [sb EXCEPT ![agentSandbox] = Cleanup(@)]
     ELSE sb' = sb
  /\ runPc' = "done"
  /\ failed' = FALSE
  /\ commitPhase' = NoPhase
  /\ UNCHANGED << elsewhere, cfg, now, nextSb, sandboxes, req, cloneResult, activeAgents, agentSandbox,
                  verificationSessionId, plan, events, analysis, calls >>

(***************************************************************************)
(* SandboxManager                                                          *)
(***************************************************************************)
\* getSandbox when the map has the session: refresh lastActivity
Touch(reg, s, t) == [reg EXCEPT ![s].lastActivity = t]

\* the test of cleanupExpiredSandboxes
Expired(e, t) == e.has /\ t - e.lastActivity > SANDBOX_TIMEOUT

\* cleanupExpiredSandboxes: cleanup() of each expired sandbox is started
\* (not awaited) and its entry deleted
Sweep ==
  /\ \E s \in DOMAIN sandboxes : Expired(sandboxes[s], now)
  /\ sb' = [sb EXCEPT ![sandboxes[SessionId].sandbox] = Cleanup(@)]
  /\ sandboxes' = [s \in DOMAIN sandboxes |->
                     IF Expired(sandboxes[s], now) THEN NoEntry ELSE sandboxes[s]]
  /\ UNCHANGED << elsewhere, cfg, now, nextSb, activeAgents, agentSandbox, verificationSessionId,
                  plan, runPc, events, analysis, cloneResult, commitPhase, failed, calls, req >>

Tick ==
  /\ now < MaxTicks * TickMs
  /\ now' = now + TickMs
  /\ UNCHANGED << elsewhere, cfg, sb, nextSb, sandboxes, activeAgents, agentSandbox,
                  verificationSessionId, plan, runPc, events, analysis, cloneResult, commitPhase, failed,
                  calls, req >>

\* the setTimeout of registerAgentForSession
AgentTimer ==
  /\ activeAgents[SessionId].timer >= 0
  /\ now >= activeAgents[SessionId].timer
  /\ activeAgents' = [activeAgents EXCEPT ![SessionId] = NoAgent]
  /\ UNCHANGED << elsewhere, cfg, now, sb, nextSb, sandboxes, agentSandbox, verificationSessionId,
                  plan, runPc, events, analysis, cloneResult, commitPhase, failed, calls, req >>

(***************************************************************************)
(* /api/publish: POST, runContinuation, continueAfterVerification          *)
(***************************************************************************)
\* every event sent twice
ReqEmitTwice(r, evs, pc) == [req EXCEPT ![r].events = @ \o evs \o evs, ![r].pc = pc]

ReqEmit(r, evs, pc) == [req EXCEPT ![r].events = @ \o evs, ![r].pc = pc]

ContinueFailed(m) ==
  ErrEv(<<"Failed", "to", "continue", "after", "verification">> \o m)

\* getAgentForSession; the timer of registerAgentForSession deletes the
\* entry as soon as it is due
AgentFor(s) == activeAgents[s].has /\ now < activeAgents[s].timer

\* POST up to the await of agent.getVerificationSession().  A client learns
\* the session id from the last event of run(); the requests being alike,
\* they are numbered in the order they arrive.
ReqStart(r) ==
  /\ req[r].pc = "idle"
  /\ runPc = "done"
  /\ \A q \in Requests : q < r => req[q].pc # "idle"
  /\ \E valid \in BOOLEAN, branchArg \in {NoBranch, BranchName} :
       IF ~valid
       THEN req' = ReqEmit(r, << ErrEv(<<"Invalid", "request", "body">>) >>, "done")
       ELSE IF ~AgentFor(SessionId)
            THEN req' = ReqEmit(r, << ErrEv(<<"Agent", "for", "session", "not", "found">>) >>,
                                "done")
            ELSE req' = [req EXCEPT ![r].pc = "probe", ![r].branch = branchArg]
  /\ UNCHANGED << elsewhere, cfg, now, sb, nextSb, sandboxes, activeAgents, agentSandbox,
                  verificationSessionId, plan, runPc, events, analysis, cloneResult, commitPhase, failed, calls >>

\* validation.data.branchName || verificationSession.branchName, where the
\* latter is  stdout.trim() || 'main'  of the branch probe
ResolveBranch(branchArg, probed) == IF branchArg # NoBranch THEN branchArg ELSE probed

\* getCurrentBranch returns, runContinuation starts the generator, which
\* runs up to the await inside getSandbox / createSandbox
ReqProbe(r) ==
  /\ req[r].pc = "probe"
  /\ \E o \in ToolOutcomes(sb[agentSandbox], "execute_shell", TRUE),
        current \in {BranchName, MainBranch} :
       LET probed == IF o[1] = "ok" THEN current ELSE MainBranch
           branch == ResolveBranch(req[r].branch, probed)
           entry == sandboxes[SessionId]
       IN  IF verificationSessionId = NoSession
           THEN \* 'No verification session active', caught by runContinuation
                /\ req' = [ReqEmit(r, << ErrEv(<<"An", "unexpected", "error", "occurred",
                                                 "during", "publish">>) >>, "done")
                             EXCEPT ![r].branch = branch]
                /\ sb' = AfterCall(agentSandbox, o)
                /\ UNCHANGED << sandboxes, nextSb, agentSandbox >>
           ELSE IF entry.has
                THEN /\ sandboxes' = Touch(sandboxes, SessionId, now)
                     /\ agentSandbox' = entry.sandbox
                     /\ req' = [ReqEmit(r, << EvP("progress", 90) >>, "git_push")
                                  EXCEPT ![r].branch = branch, ![r].entered = TRUE]
                     /\ sb' = AfterCall(agentSandbox, o)
                     /\ nextSb' = nextSb
                ELSE /\ nextSb \in SandboxIds
                     /\ sb' = [AfterCall(agentSandbox, o) EXCEPT ![nextSb] = NewSandbox("e2b")]
                     /\ nextSb' = nextSb + 1
                     /\ req' = [req EXCEPT ![r].pc = "creating", ![r].branch = branch,
                                           ![r].entered = TRUE, ![r].made = nextSb]
                     /\ UNCHANGED << sandboxes, agentSandbox >>
  /\ UNCHANGED << elsewhere, cfg, now, activeAgents, verificationSessionId, plan, runPc, events,
                  analysis, cloneResult, commitPhase, failed, calls >>

\* createSandbox after its await: the new sandbox is stored under the
\* session id whatever the map holds by now
ReqCreate(r) ==
  /\ req[r].pc = "creating"
  /\ \E ok \in BOOLEAN :
       IF ok
       THEN /\ sb' = [sb EXCEPT ![req[r].made] = Initialize(@)]
            /\ sandboxes' = [sandboxes EXCEPT ![SessionId] = Entry(req[r].made, now)]
            /\ agentSandbox' = req[r].made
            /\ req' = ReqEmit(r, << EvP("progress", 90) >>, "git_push")
       ELSE /\ req' = ReqEmit(r, << ContinueFailed(ProvisionFailed) >>, "finally")
            /\ UNCHANGED << sb, sandboxes, agentSandbox >>
  /\ UNCHANGED << elsewhere, cfg, now, nextSb, activeAgents, verificationSessionId, plan, runPc,
                  events, analysis, cloneResult, commitPhase, failed, calls >>

ReqGitPush(r) ==
  /\ req[r].pc = "git_push"
  /\ \E o \in ToolOutcomes(sb[agentSandbox], "git_push", FALSE) :
       /\ sb' = AfterCall(agentSandbox, o)
       /\ CASE o[1] = "ok" ->
                 req' = ReqEmit(r, << EvP("progress", 95), Ev("pr_create") >>, "prDetails")
            [] o[1] = "fail" ->
                 req' = ReqEmit(r, << ContinueFailed(<<"Failed", "to", "push", "changes">>) >>,
                                "finally")
            [] o[1] = "throw" ->
                 req' = ReqEmit(r, << ContinueFailed(ProvisionFailed) >>, "finally")
  /\ calls' = Invoked("git_push")
  /\ UNCHANGED << elsewhere, cfg, now, nextSb, sandboxes, activeAgents, agentSandbox,
                  verificationSessionId, plan, runPc, events, analysis, cloneResult, commitPhase, failed >>

ReqPrDetails(r) ==
  /\ req[r].pc = "prDetails"
  /\ req' = [req EXCEPT ![r].pc = "createPR"]
  /\ UNCHANGED << elsewhere, cfg, now, sb, nextSb, sandboxes, activeAgents, agentSandbox,
                  verificationSessionId, plan, runPc, events, analysis, cloneResult, commitPhase, failed, calls >>

ReqCreatePR(r) ==
  /\ req[r].pc = "createPR"
  /\ \E ok \in BOOLEAN :
       req' = ReqEmit(r, IF ok THEN PrCreated ELSE << PrFailed >>, "finally")
  /\ calls' = Invoked("createPullRequest")
  /\ UNCHANGED << elsewhere, cfg, now, sb, nextSb, sandboxes, activeAgents, agentSandbox,
                  verificationSessionId, plan, runPc, events, analysis, cloneResult, commitPhase, failed >>

\* cleanup at the end of the try block instead of in finally
ContinuationCleansUpOnSuccess(lastType) == lastType = "complete"

\* does the finally block of continueAfterVerification tear the sandbox down
ContinuationCleansUp(lastType) == TRUE

\* a finally block that leaves verificationSessionId set
ReqFinallyKeepsSession(r) ==
  /\ req[r].pc = "finally"
  /\ LET last == req[r].events[Len(req[r].events)].type
     IN  IF ContinuationCleansUp(last)
         THEN /\ sb' = [sb EXCEPT ![agentSandbox] = Cleanup(@)]
              /\ req' = [req EXCEPT ![r].pc = "done", ![r].tornDown = agentSandbox]
         ELSE /\ sb' = sb
              /\ req' = [req EXCEPT ![r].pc = "done"]
  /\ verificationSessionId' = verificationSessionId
  /\ UNCHANGED << elsewhere, cfg, now, nextSb, sandboxes, activeAgents, agentSandbox, plan, runPc,
                  events, analysis, cloneResult, commitPhase, failed, calls >>

\* The finally block of continueAfterVerification, reached because
\* runContinuation stops at the terminal event; then closeStream, which
\* finds getVerificationSessionId() undefined and leaves activeAgents alone.
ReqFinally(r) ==
  /\ req[r].pc = "finally"
  /\ LET last == req[r].events[Len(req[r].events)].type
     IN  IF ContinuationCleansUp(last)
         THEN /\ sb' = [sb EXCEPT ![agentSandbox] = Cleanup(@)]
              /\ req' = [req EXCEPT ![r].pc = "done", ![r].tornDown = agentSandbox]
         ELSE /\ sb' = sb
              /\ req' = [req EXCEPT ![r].pc = "done"]
  /\ verificationSessionId' = NoSession
  /\ UNCHANGED << elsewhere, cfg, now, nextSb, sandboxes, activeAgents, agentSandbox, plan, runPc,
                  events, analysis, cloneResult, commitPhase, failed, calls >>

Next ==
  \/ RunInitialize \/ RunClone \/ RunListFiles \/ RunAnalyzeLLM \/ RunReadPkg
  \/ RunGitStatusProbe \/ RunPlanLLM \/ RunGitBranch \/ RunImplement
  \/ RunGitStatus \/ RunGitAdd \/ RunGitCommit \/ RunDecide \/ RunGitPush
  \/ RunPrDetails \/ RunCreatePR \/ RunFinally
  \/ Sweep \/ Tick \/ AgentTimer
  \/ \E r \in Requests : ReqStart(r)
  \/ \E r \in Requests : ReqProbe(r)
  \/ \E r \in Requests : ReqCreate(r)
  \/ \E r \in Requests : ReqGitPush(r)
  \/ \E r \in Requests : ReqPrDetails(r)
  \/ \E r \in Requests : ReqCreatePR(r)
  \/ \E r \in Requests : ReqFinally(r)

Spec == Init /\ [][Next]_vars

(***************************************************************************)
(* Properties                                                              *)
(***************************************************************************)
\* auxiliary operators on event sequences and messages
Last(evs) == evs[Len(evs)]

Count(evs, t) == Cardinality({i \in 1..Len(evs) : evs[i].type = t})

HasWord(m, w) == \E i \in 1..Len(m) : m[i] = w

PhaseMarkers == <<"start", "sandbox_create", "analyze", "plan", "implement",
                  "pr_create", "pr_created", "complete">>

IsMarker(t) == \E k \in 1..Len(PhaseMarkers) : PhaseMarkers[k] = t

Rank(t) == CHOOSE k \in 1..Len(PhaseMarkers) : PhaseMarkers[k] = t

InPhaseOrder(evs) ==
  \A i, j \in 1..Len(evs) :
    (i < j /\ IsMarker(evs[i].type) /\ IsMarker(evs[j].type))
      => Rank(evs[i].type) <= Rank(evs[j].type)

\* C1: with verification mode off, a run whose body has ended with every
\* call having succeeded, and a finished run that emitted no error event,
\* have emitted the phase markers in the order start, sandbox_create,
\* analyze.., plan.., implement.., pr_create, pr_created, complete: each of
\* them occurs, start, sandbox_create, pr_create, pr_created and complete
\* once, start is the first event and complete the last one.
PhaseMarkersInOrder ==
  ( /\ ~verificationMode
    /\ \/ runPc = "finally" /\ ~failed
       \/ runPc = "done" /\ Count(events, "error") = 0 )
    => /\ InPhaseOrder(events)
       /\ \A k \in 1..Len(PhaseMarkers) : Count(events, PhaseMarkers[k]) >= 1
       /\ \A t \in {"start", "sandbox_create", "pr_create", "pr_created", "complete"} :
            Count(events, t) = 1
       /\ events[1].type = "start"
       /\ Last(events).type = "complete"
       /\ Count(events, "error") = 0

SuccessfulRunCompleted ==
  /\ runPc = "finally" /\ ~verificationMode /\ ~failed
  /\ Last(events).type = "complete"
  /\ calls["createPullRequest"] = 1

\* C2: when run() has finished, in any mode and after any failures, its
\* last event is complete, error or pause_for_verification; and at no time
\* does an event follow a complete event.
StreamEndsInTerminalEvent ==
  /\ runPc = "done"
       => Last(events).type \in {"complete", "error", "pause_for_verification"}
  /\ \A i \in 1..Len(events) : events[i].type = "complete" => i = Len(events)

RunEndedAfterLateFailure ==
  /\ runPc = "done"
  /\ Last(events).type = "error"
  /\ Count(events, "implement") > 0
  /\ calls["git_push"] = 1

\* C3: a run that ended in a fatal failure has emitted exactly one event of
\* type error, the events of the nested phase generators included.
ExactlyOneErrorEvent ==
  (runPc = "done" /\ Last(events).type = "error") => Count(events, "error") = 1

ResumeFindsAgentSandbox ==
  \A r \in Requests :
    (req[r].entered /\ AgentFor(SessionId))
      => req[r].made = 0

\* C6: over all the resume requests for one paused session, git_push is
\* invoked at most once and createPullRequest at most once.
PublishedAtMostOnce ==
  calls["git_push"] <= 1 /\ calls["createPullRequest"] <= 1

\* C7: every continueAfterVerification that was invoked on a paused session
\* and has finished, whatever its outcome, has invoked cleanup() on the
\* sandbox the agent was bound to at that time.
ContinuationTearsDown ==
  \A r \in Requests :
    (req[r].pc = "done" /\ req[r].entered)
      => /\ req[r].tornDown # 0
         /\ sb[req[r].tornDown].cleanups >= 1

ContinuationEndedInPushError ==
  \E r \in Requests :
    /\ req[r].pc = "done" /\ req[r].entered
    /\ Last(req[r].events).type = "error"
    /\ HasWord(Last(req[r].events).msg, "push")
    /\ req[r].tornDown = AgentSb
    /\ sb[AgentSb].cleanups = 1

\* C8: once the session has ended (run() finished with complete or error, or
\* a resume has finished) the registry holds no entry for its session id.
EndedSessionEvicted ==
  ( \/ runPc = "done" /\ Last(events).type \in {"complete", "error"}
    \/ \E r \in Requests : req[r].pc = "done" /\ req[r].entered )
    => ~sandboxes[SessionId].has

\* C9: the implement phase is entered only with a plan that names a file:
\* whenever an implement event has been emitted or the implementation has
\* been started, filesToModify.length + newFiles.length > 0.
ImplementNeedsFiles ==
  (Count(events, "implement") > 0 \/ calls["implement_tools"] > 0)
    => PlanSize(plan) > 0

\* C10: once clone_repository has returned success=false, run() goes to its
\* end with a single error event, whose message contains "clone", without
\* an analyze, plan, implement, pr_create or complete event and without
\* invoking list_files, git_branch, git_add, git_commit, git_push or
\* createPullRequest.
CloneFailureIsFatal ==
  cloneResult = "fail"
    => /\ runPc \in {"finally", "done"}
       /\ Count(events, "error") = 1
       /\ \A i \in 1..Len(events) :
            events[i].type = "error" => HasWord(events[i].msg, "clone")
       /\ \A t \in {"analyze", "plan", "implement", "pr_create", "complete"} :
            Count(events, t) = 0
       /\ \A op \in {"list_files", "git_branch", "git_add", "git_commit",
                     "git_push", "createPullRequest"} : calls[op] = 0

CloneReturnedFailure ==
  /\ cloneResult = "fail"
  /\ runPc = "done"
  /\ sb[AgentSb].cleanups = IF verificationMode THEN 0 ELSE 1

\* C11: every run() that provisioned its sandbox and has finished without
\* emitting pause_for_verification, in verification mode or not, has had
\* cleanup() invoked on that sandbox.
RunWithoutPauseCleansUp ==
  ( /\ runPc = "done"
    /\ Count(events, "pause_for_verification") = 0
    /\ sb[AgentSb].provisions >= 1 )
    => sb[AgentSb].cleanups >= 1

\* the registry entry of the agent's own sandbox has been deleted by the sweep
Evicted == useE2B /\ sandboxes[SessionId] # Entry(AgentSb, sandboxes[SessionId].lastActivity)

\* C12: over the whole lifetime of its session, cleanups by the agent and by
\* a resume included, the teardown of an evicted sandbox that had been
\* provisioned has happened exactly once: cleanup() was invoked once on it,
\* or at least an environment of it was terminated once.
EvictedTornDownOnce ==
  (Evicted /\ sb[AgentSb].provisions >= 1)
    => (sb[AgentSb].cleanups = 1 \/ sb[AgentSb].kills = 1)

(***************************************************************************)
(* Paths handed to the sandbox tools.  A path is a list of segments, and a *)
(* segment is a list of tokens, so that the string tests of the code       *)
(* (startsWith on the resolved string, a regular expression searched in    *)
(* the normalized string) keep their meaning: 'repo2' starts with 'repo',  *)
(* and '.gitignore' contains '.git'.                                       *)
(***************************************************************************)
MaxSegs == 3

Up == << ".." >>

Names == { Up, << "tmp" >>, << "repo" >>, << "repo", "2" >>, << "a" >>,
           << ".git" >>, << ".git", "ignore" >>, << ".env" >> }

SegSeqs == UNION { [1..n -> Names] : n \in 0..MaxSegs }

Paths == [abs : BOOLEAN, segs : SegSeqs]

\* the sandbox root, '/tmp/repo'
workDir == << << "tmp" >>, << "repo" >> >>

\* where the interpreter of the E2B container may be running
E2BCwds == { workDir, << << "home" >> >> }

RECURSIVE resolveFrom(_, _)
resolveFrom(stack, segs) ==
  IF segs = << >> THEN stack
  ELSE resolveFrom(IF Head(segs) = Up
                     THEN IF stack = << >> THEN stack
                          ELSE SubSeq(stack, 1, Len(stack) - 1)
                     ELSE Append(stack, Head(segs)),
                   Tail(segs))

\* path.resolve(base, p): the absolute location, as a list of segments
resolve(base, p) == resolveFrom(IF p.abs THEN << >> ELSE base, p.segs)

RECURSIVE normalizeFrom(_, _, _)
normalizeFrom(abs, stack, segs) ==
  IF segs = << >> THEN stack
  ELSE LET h == Head(segs)
           popped == SubSeq(stack, 1, Len(stack) - 1)
           next == IF h # Up THEN Append(stack, h)
                   ELSE IF stack # << >> /\ stack[Len(stack)] # Up THEN popped
                   ELSE IF abs THEN stack
                   ELSE Append(stack, Up)
       IN normalizeFrom(abs, next, Tail(segs))

\* path.normalize(p): '..' cancels the segment before it, leading '..' stay
normalize(p) == [abs |-> p.abs, segs |-> normalizeFrom(p.abs, << >>, p.segs)]

\* the string of an absolute location, token by token
RECURSIVE str(_)
str(segs) ==
  IF segs = << >> THEN << >>
  ELSE << "/" >> \o Head(segs) \o str(Tail(segs))

\* String.prototype.startsWith
startsWith(s, prefix) ==
  Len(s) >= Len(prefix) /\ SubSeq(s, 1, Len(prefix)) = prefix

\* the location is the root or lies below it
Inside(full) ==
  Len(full) >= Len(workDir) /\ SubSeq(full, 1, Len(workDir)) = workDir

\* VirtualSandbox.getSecurePath: ok = FALSE stands for the thrown error
getSecurePath(p) ==
  LET fullPath == resolve(workDir, p)
  IN  [ok |-> startsWith(str(fullPath), str(workDir)), path |-> fullPath]

\* dangerousPatterns.some(pattern => pattern.test(normalizedPath)), for the
\* patterns the names above can match: /\.git/ and /\.env/
isDangerous(normalizedPath) ==
  \E i \in 1..Len(normalizedPath.segs) :
    \E j \in 1..Len(normalizedPath.segs[i]) :
      normalizedPath.segs[i][j] \in { ".git", ".env" }

validateFilePath(filePath, baseDir) ==
  LET normalizedPath == normalize(filePath)
      fullPath == resolve(baseDir, normalizedPath)
  IN  IF ~startsWith(str(fullPath), str(baseDir)) THEN FALSE
      ELSE IF isDangerous(normalizedPath) THEN FALSE
      ELSE TRUE

VirtualPathTools == { "read_file", "write_file", "list_files", "delete_file",
                      "git_status", "git_apply_patch", "execute_shell" }

E2BPathTools == { "read_file", "write_file", "list_files", "git_add" }

PathInit ==
  /\ AgentParked /\ calc = NoCall
  /\ box = NoCall /\ loop = NoCall
  /\ pathCall \in [pc : {"ready"}, backend : {"virtual", "e2b"},
                   tool : VirtualPathTools \cup E2BPathTools, arg : Paths,
                   called : {FALSE}, success : {FALSE}, touched : {{}},
                   validated : {FALSE}, isValid : {FALSE}]
  /\ pathCall.tool \in (IF pathCall.backend = "virtual" THEN VirtualPathTools
                        ELSE E2BPathTools)

\* the result of the call and the locations it read, wrote, deleted or ran in
Returned(success, touched) ==
  pathCall' = [pathCall EXCEPT !.called = TRUE, !.success = success,
                               !.touched = touched]

\* VirtualSandbox.callTool on a path-accepting tool: the tool resolves its
\* argument with getSecurePath, whose error callTool turns into a failure
VirtualPathCall ==
  /\ pathCall.pc = "ready" /\ pathCall.backend = "virtual" /\ ~pathCall.called
  /\ LET secure == getSecurePath(pathCall.arg)
         target == IF pathCall.tool = "git_apply_patch"
                     THEN secure.path \o << << ".git" >>, << "temp.patch" >> >>
                     ELSE secure.path
     IN  \E fsOk \in BOOLEAN :
           IF secure.ok /\ fsOk THEN Returned(TRUE, {target})
           ELSE Returned(FALSE, {})
  /\ UNCHANGED << agentVars, calc, box, loop >>

\* E2BSandbox.callTool on a path-accepting tool
E2BPathCall ==
  /\ pathCall.pc = "ready" /\ pathCall.backend = "e2b" /\ ~pathCall.called
  /\ LET arg == pathCall.arg
         below == resolveFrom(workDir, arg.segs)
     IN  \E runOk \in BOOLEAN :
           IF ~runOk THEN Returned(FALSE, {})
           ELSE CASE pathCall.tool = "read_file" ->
                       \E cwd \in E2BCwds, exists \in BOOLEAN :
                         Returned(TRUE, IF exists THEN {resolve(cwd, arg)} ELSE {})
                  [] pathCall.tool = "write_file" ->
                       Returned(TRUE, {resolve(workDir, arg)})
                  [] pathCall.tool = "list_files" ->
                       Returned(TRUE, {workDir})
                  [] pathCall.tool = "git_add" ->
                       Returned(TRUE, {IF arg.segs = << >> /\ ~arg.abs
                                         THEN workDir ELSE below})
  /\ UNCHANGED << agentVars, calc, box, loop >>

\* validateFilePath applied to the argument, against the sandbox root
ValidatePath ==
  /\ pathCall.pc = "ready" /\ ~pathCall.validated
  /\ pathCall' = [pathCall EXCEPT !.validated = TRUE,
                                  !.isValid = validateFilePath(pathCall.arg, workDir)]
  /\ UNCHANGED << agentVars, calc, box, loop >>

PathNext == VirtualPathCall \/ E2BPathCall \/ ValidatePath

PathSpec == PathInit /\ [][PathNext]_vars

\* the argument resolves to a location outside the sandbox root
Escapes(p) == ~Inside(resolve(workDir, p))

\* C13: a call of a path-accepting tool whose path argument resolves outside
\* the sandbox root reads, creates, modifies or deletes nothing outside the
\* root (the effect half of the claim, which also asks for success = false).
EscapingPathTouchesNothingOutside ==
  (pathCall.pc = "ready" /\ pathCall.called /\ Escapes(pathCall.arg))
    => \A t \in pathCall.touched : Inside(t)

\* the argument matches a pattern of the denylist
Denylisted(p) == isDangerous(normalize(p))

\* the location lies in a .git directory
InGit(full) == \E i \in 1..Len(full) : full[i] = << ".git" >>

\* C14: a call of a path-accepting tool with a path that matches a denylisted
\* pattern fails and has no filesystem effect; a call with another path
\* touches nothing inside .git; and validateFilePath answers isValid = false
\* for exactly the paths that escape the base directory or match a pattern.
DenylistEnforced ==
  pathCall.pc = "ready" =>
    /\ (pathCall.called /\ Denylisted(pathCall.arg))
         => (~pathCall.success /\ pathCall.touched = {})
    /\ (pathCall.called /\ ~Denylisted(pathCall.arg))
         => \A t \in pathCall.touched : ~InGit(t)
    /\ pathCall.validated
         => (~pathCall.isValid
               <=> (Escapes(pathCall.arg) \/ Denylisted(pathCall.arg)))

(***************************************************************************)
(* One sandbox object of either backend, driven through initialize(),      *)
(* cleanup() and callTool() in any order.  Provisioning the environment    *)
(* (CodeInterpreter.create, fs.mkdir) and terminating it (sandbox.kill,    *)
(* fs.rm) can fail.                                                        *)
(***************************************************************************)
MaxOps == 4

\* names handed to callTool; the last one is in neither catalogue
BoxTools == {"read_file", "git_status", "execute_shell", "no_such_tool"}

BoxInit ==
  /\ AgentParked /\ calc = NoCall
  /\ pathCall = NoCall /\ loop = NoCall
  /\ \E kind \in {"e2b", "virtual"} :
       box = [pc |-> "ready", s |-> NewSandbox(kind),
              before |-> NewSandbox(kind), start |-> NewSandbox(kind),
              first |-> NewSandbox(kind), run |-> 0, last |-> "none",
              tool |-> "none", result |-> "none", ops |-> 0]

\* the call `op` took the sandbox to s and ended in result ("ok", "fail":
\* a ToolResult with success=false, "throw": rejected); run counts the
\* initialize() calls in a row, start and first are the states before and
\* after the first of them
Called(op, tool, s, result) ==
  box' = [box EXCEPT !.s = s, !.before = box.s, !.last = op, !.tool = tool,
                     !.result = result, !.ops = @ + 1,
                     !.run = IF op = "initialize" THEN @ + 1 ELSE 0,
                     !.start = IF op = "initialize" /\ box.run = 0 THEN box.s ELSE @,
                     !.first = IF op = "initialize" /\ box.run = 0 THEN s ELSE @]

\* initialize(): returns at once on an initialized sandbox, else provisions
\* the environment, and rejects if that fails
BoxInitialize ==
  /\ box.pc = "ready" /\ box.ops < MaxOps
  /\ \/ Called("initialize", "none", Initialize(box.s), "ok")
     \/ /\ Initialize(box.s) # box.s
        /\ Called("initialize", "none", box.s, "throw")
  /\ UNCHANGED << agentVars, calc, pathCall, loop >>

\* cleanup() when terminating the environment fails: the E2B backend
\* lets the rejection of kill() through, the virtual one logs the error
\* of fs.rm; neither reaches `this.isInitialized = false`
CleanupFailed(s) == [s EXCEPT !.cleanups = @ + 1, !.kills = @ + 1]

BoxCleanup ==
  /\ box.pc = "ready" /\ box.ops < MaxOps
  /\ \/ Called("cleanup", "none", Cleanup(box.s), "ok")
     \/ /\ box.s.env
        /\ Called("cleanup", "none", CleanupFailed(box.s),
                  IF box.s.kind = "e2b" THEN "throw" ELSE "ok")
  /\ UNCHANGED << agentVars, calc, pathCall, loop >>

BoxCallTool ==
  /\ box.pc = "ready" /\ box.ops < MaxOps
  /\ \E tool \in BoxTools, hasRepoPath \in BOOLEAN :
       \E o \in ToolOutcomes(box.s, tool, hasRepoPath) :
         Called("callTool", tool, IF o[2] THEN Initialize(box.s) ELSE box.s, o[1])
  /\ UNCHANGED << agentVars, calc, pathCall, loop >>

BoxNext == BoxInitialize \/ BoxCleanup \/ BoxCallTool

BoxSpec == BoxInit /\ [][BoxNext]_vars

\* C15: callTool with a name of the backend's catalogue returns a ToolResult
\* and does not throw, whatever goes wrong inside, a failure to provision the
\* environment included.
CataloguedCallNeverThrows ==
  (box.pc = "ready" /\ box.last = "callTool"
     /\ box.tool \in Catalogue(box.s.kind))
    => box.result # "throw"

\* a sandbox was initialized twice in a row and is running its one environment
InitializedTwiceInARow ==
  /\ box.pc = "ready" /\ box.last = "initialize" /\ box.run >= 2
  /\ ~box.start.isInitialized /\ box.s.isInitialized

\* C16: after n >= 1 initialize() calls in a row the environment has been
\* provisioned exactly once by them and the sandbox is in the state the first
\* call left it in; a call on an initialized sandbox changes nothing, and a
\* call whose provisioning fails rejects and leaves the sandbox uninitialized.
InitializeIdempotent ==
  (box.pc = "ready" /\ box.last = "initialize") =>
    /\ box.before.isInitialized => (box.s = box.before /\ box.result = "ok")
    /\ ~box.before.isInitialized
         => \/ box.result = "throw" /\ box.s = box.before
            \/ /\ box.result = "ok" /\ box.s.isInitialized
               /\ box.s.provisions = box.before.provisions + 1
    /\ box.s.isInitialized
         => box.s.provisions
              = box.start.provisions + (IF box.start.isInitialized THEN 0 ELSE 1)
    /\ box.first.isInitialized => box.s = box.first

\* C17: after a cleanup() call, on a sandbox that was initialized or not, the
\* call has not thrown, the sandbox is uninitialized, and its environment has
\* been terminated at most once.
CleanupIdempotent ==
  (box.pc = "ready" /\ box.last = "cleanup") =>
    /\ box.result # "throw"
    /\ ~box.s.isInitialized
    /\ box.s.kills <= box.s.provisions

\* C40: once cleanup() has been called on a sandbox and has terminated its
\* environment, no environment is provisioned for it again unless
\* initialize() is called: a callTool on the torn-down sandbox fails and
\* provisions nothing.
TornDownStaysDown ==
  (/\ box.pc = "ready" /\ box.last = "callTool"
   /\ box.before.cleanups >= 1 /\ box.before.kills >= 1 /\ ~box.before.isInitialized)
    => (box.result # "ok" /\ box.s.provisions = box.before.provisions)

(***************************************************************************)
(* OpenAIClient.executeWithTools: the round loop.  The model and the tool  *)
(* executor are the environment.  By default a response reports no token   *)
(* usage and asks for one tool call that succeeds; at most MaxSurprises    *)
(* times in a run the environment does otherwise (a response that reports  *)
(* BigUsage tokens, a round with MaxCalls tool calls, an executor that     *)
(* throws, arguments that are not JSON).                                   *)
(***************************************************************************)
MaxSurprises == 2

MaxCalls == 2

BigUsage == 3000

\* no budget, or one that is used up, low, or high
Budgets == {"none", "spent", "low", "high"}

\* budget.tokensRemaining
tokensRemaining(budget) ==
  IF budget = "spent" THEN 0 ELSE IF budget = "low" THEN 3500 ELSE 7000

\* the variant without the reduction for a low budget
maxRoundsFull(budget) == 16

\* const maxRounds = budget && budget.tokensRemaining < 5000 ? 5 : 16
maxRounds(budget) ==
  IF budget # "none" /\ tokensRemaining(budget) < 5000 THEN 5 ELSE 16

Msg(role, id) == [role |-> role, id |-> id]

\* what one tool call can come to: success=true, success=false, the executor
\* throws, JSON.parse of the arguments throws
ToolCallOutcomes == {"ok", "fail", "throw", "badjson"}

\* the tool names createPlan hands to executeWithTools
GivenTools == {"list_files", "read_file"}

\* the names the model puts in its tool calls: one it was given and, when it
\* strays, one it was not given that the sandbox has
EmittedNames(strays) == {"read_file"} \cup (IF strays THEN {"write_file"} ELSE {})

\* the state at the head of the round loop; executed is the set of tool names
\* the executor has been called with
LoopStart(budget, strays) ==
  [pc |-> "model", budget |-> budget, strays |-> strays, round |-> 0,
   modelCalls |-> 0, totalTokens |-> 0, pending |-> << >>, nextId |-> 1,
   messages |-> << Msg("system", 0), Msg("user", 0) >>,
   toolCalls |-> << >>, result |-> 0, ended |-> "no",
   requested |-> << >>, made |-> << >>, answers |-> 0, executed |-> {},
   last |-> [op |-> "none", id |-> 0, outcome |-> "none",
             at |-> 0, nudged |-> FALSE],
   reported |-> 0, surprises |-> 0]

LoopInit ==
  /\ AgentParked /\ calc = NoCall
  /\ box = NoCall /\ pathCall = NoCall
  /\ \E budget \in Budgets : loop = LoopStart(budget, FALSE)

\* the budget check at the head of a round
Warned(l) ==
  IF l.budget # "none" /\ l.totalTokens * 10 > tokensRemaining(l.budget) * 8
    THEN [l EXCEPT !.messages = Append(@, Msg("system", 0))]
    ELSE l

\* the token usages a response can report; without a budget nothing reads
\* the total, and the responses report none
Usages(l) ==
  {0} \cup (IF l.budget # "none" /\ l.surprises < MaxSurprises
             THEN {BigUsage} ELSE {})

\* a model call is issued: the total it started from, and whether the
\* wrap-up message was pushed before it
ModelCalled(l) ==
  [op |-> "model", id |-> 0, outcome |-> "none",
   at |-> l.totalTokens, nudged |-> Warned(l) # l]

\* chat.completions.create has returned: the usage is added up; reported is
\* the sum of the usages the responses carried
Responded(l, usage) ==
  [Warned(l) EXCEPT !.modelCalls = @ + 1, !.totalTokens = @ + usage,
                    !.surprises = IF usage = 0 THEN @ ELSE @ + 1,
                    !.reported = @ + usage,
                    !.last = ModelCalled(l)]

Running == loop.pc = "model" /\ loop.round < maxRounds(loop.budget)

\* the model API call fails: the rejection leaves executeWithTools
ModelRejects ==
  /\ Running
  /\ loop' = [Warned(loop) EXCEPT !.modelCalls = @ + 1, !.pc = "threw",
                                  !.ended = "apierror",
                                  !.last = ModelCalled(loop)]
  /\ UNCHANGED << agentVars, calc, box, pathCall >>

\* response.choices[0]?.message is missing: break
ModelSilent ==
  /\ Running
  /\ \E usage \in Usages(loop) :
       loop' = [Responded(loop, usage) EXCEPT !.pc = "done", !.ended = "nomessage"]
  /\ UNCHANGED << agentVars, calc, box, pathCall >>

\* a message without tool_calls: its content is the result, break; the
\* content of the response of round r is written r + 1
ModelAnswers ==
  /\ Running
  /\ \E usage \in Usages(loop) :
       loop' = [Responded(loop, usage) EXCEPT
                  !.messages = Append(@, Msg("assistant", 0)),
                  !.result = loop.round + 1, !.answers = @ + 1,
                  !.pc = "done", !.ended = "content"]
  /\ UNCHANGED << agentVars, calc, box, pathCall >>

\* a message with tool_calls: they are executed one after the other
ModelRequestsTools ==
  /\ Running
  /\ \E usage \in Usages(loop), k \in 1..MaxCalls :
       /\ k > 1 => loop.surprises + (IF usage = 0 THEN 0 ELSE 1) < MaxSurprises
       /\ LET ids == [i \in 1..k |-> loop.nextId + i - 1]
          IN  loop' = [Responded(loop, usage) EXCEPT
                         !.messages = Append(@, Msg("assistant", 0)),
                         !.pending = ids, !.nextId = @ + k,
                         !.requested = @ \o ids,
                         !.surprises = @ + (IF k > 1 THEN 1 ELSE 0),
                         !.pc = "tools"]
  /\ UNCHANGED << agentVars, calc, box, pathCall >>

\* the variant in which a throwing executor is not caught
PropagatesThrow(outcome) == outcome = "throw"

\* whether a failed tool call leaves executeWithTools: the catch block of
\* the tool call reports it to the model instead
Propagates(outcome) == FALSE

\* the end of a round that had tool calls: the budget exhaustion check, then
\* the loop condition
RoundEnd(l) ==
  IF l.budget # "none" /\ l.totalTokens >= tokensRemaining(l.budget)
    THEN [l EXCEPT !.pc = "done", !.ended = "budget"]
  ELSE IF l.round + 1 < maxRounds(l.budget)
    THEN [l EXCEPT !.pc = "model", !.round = @ + 1]
  ELSE [l EXCEPT !.pc = "done", !.round = @ + 1, !.ended = "rounds"]

\* one tool call of the current round
ToolCall ==
  /\ loop.pc = "tools" /\ loop.pending # << >>
  /\ \E o \in ToolCallOutcomes, name \in EmittedNames(loop.strays) :
       LET cost == (IF o \in {"throw", "badjson"} THEN 1 ELSE 0)
                     + (IF name \in GivenTools THEN 0 ELSE 1)
       IN
       /\ loop.surprises + cost <= MaxSurprises
       /\ LET id == Head(loop.pending)
              entry == [id |-> id, round |-> loop.round + 1]
              l1 == [loop EXCEPT
                       !.pending = Tail(@),
                       !.made = IF o = "badjson" THEN @ ELSE Append(@, entry),
                       !.executed = IF o = "badjson" THEN @ ELSE @ \cup {name},
                       !.toolCalls = IF o \in {"ok", "fail"} THEN Append(@, entry) ELSE @,
                       !.surprises = @ + cost,
                       !.last = [op |-> "tool", id |-> id, outcome |-> o,
                                 at |-> 0, nudged |-> FALSE]]
              l2 == [l1 EXCEPT !.messages = Append(@, Msg("tool", id))]
          IN  loop' = IF Propagates(o)
                        THEN [l1 EXCEPT !.pc = "threw", !.ended = "toolerror"]
                      ELSE IF l2.pending = << >> THEN RoundEnd(l2)
                      ELSE l2
  /\ UNCHANGED << agentVars, calc, box, pathCall >>

LoopNext ==
  \/ ModelRejects \/ ModelSilent \/ ModelAnswers \/ ModelRequestsTools
  \/ ToolCall

LoopSpec == LoopInit /\ [][LoopNext]_vars

\* the executeWithTools call of createPlan: no budget, and a model that may
\* ask for tools it was not given
DispatchInit ==
  /\ AgentParked /\ calc = NoCall
  /\ box = NoCall /\ pathCall = NoCall
  /\ loop = LoopStart("none", TRUE)

DispatchSpec == DispatchInit /\ [][LoopNext]_vars

\* the model asked for tool calls in each of the five rounds of a run with a
\* low budget
LowBudgetRanOutOfRounds ==
  /\ loop.pc = "done" /\ loop.ended = "rounds"
  /\ loop.budget = "low" /\ loop.modelCalls = 5

\* C18: executeWithTools makes at most N model calls, N = 5 with a budget
\* whose tokensRemaining is below 5000 and N = 16 otherwise, and asks the
\* model again only below N; the loop ends at the first response that has
\* content and no tool calls, and that content is the result.
LoopBounded ==
  loop.pc # "off" =>
    LET N == IF loop.budget \in {"spent", "low"} THEN 5 ELSE 16
    IN  /\ loop.modelCalls <= N
        /\ loop.pc = "model" => loop.modelCalls < N
        /\ loop.pc \in {"model", "tools"} => loop.answers = 0
        /\ loop.answers >= 1
             => /\ loop.pc = "done" /\ loop.answers = 1
                /\ loop.result = loop.modelCalls

\* the tool messages of the history that answer tool call id
ToolTurns(id) ==
  {i \in 1..Len(loop.messages) :
     loop.messages[i].role = "tool" /\ loop.messages[i].id = id}

\* a tool call has just failed, in one of the three ways
ToolCallJustFailed ==
  /\ loop.pc # "off" /\ loop.last.op = "tool"
  /\ loop.last.outcome \in {"fail", "throw", "badjson"}

\* an executor threw in the middle of a round and the next call is due
ThrowingCallInMidRound ==
  /\ ToolCallJustFailed /\ loop.last.outcome = "throw"
  /\ loop.pc = "tools" /\ loop.pending # << >>

\* C19: a tool call that fails (success=false, a throwing executor, arguments
\* that are not JSON) does not leave executeWithTools: its tool-turn message
\* is the last of the history and the loop goes on with the next tool call
\* of the round or with the end of the round; only a failed model API call
\* leaves executeWithTools with an error.
ToolFailureStaysInside ==
  loop.pc # "off" =>
    /\ ToolCallJustFailed
         => /\ loop.pc # "threw"
            /\ loop.messages[Len(loop.messages)] = Msg("tool", loop.last.id)
            /\ Cardinality(ToolTurns(loop.last.id)) = 1
            /\ loop.pending # << >> => loop.pc = "tools"
    /\ loop.pc = "threw" => (loop.ended = "apierror" /\ loop.last.op = "model")

\* C20: when executeWithTools returns, toolCalls holds one entry for every
\* tool call that was made, in the order of execution, each with the 1-based
\* round in which it was requested, so with rounds that never decrease; and
\* whenever the model is about to be called or the loop has ended, every tool
\* call requested so far has exactly one tool-turn message.
ToolCallsRecorded ==
  loop.pc # "off" =>
    /\ loop.pc = "done"
         => /\ loop.toolCalls = loop.made
            /\ \A i, j \in 1..Len(loop.toolCalls) :
                 i <= j => loop.toolCalls[i].round <= loop.toolCalls[j].round
    /\ loop.pc \in {"model", "done"}
         => \A i \in 1..Len(loop.requested) :
              Cardinality(ToolTurns(loop.requested[i])) = 1

\* C21: with a budget, no model call is issued at an accumulated totalTokens
\* that has reached budget.tokensRemaining; the usage returned is the sum of
\* the usages of the model calls made; and the wrap-up message is pushed only
\* at the head of a round whose accumulated totalTokens is above 80% of
\* tokensRemaining.
BudgetRespected ==
  loop.pc # "off" =>
    /\ (loop.last.op = "model" /\ loop.budget # "none")
         => loop.last.at < tokensRemaining(loop.budget)
    /\ loop.pc = "done" => loop.totalTokens = loop.reported
    /\ (loop.last.op = "model" /\ loop.last.nudged)
         => /\ loop.budget # "none"
            /\ loop.last.at * 5 > tokensRemaining(loop.budget) * 4

\* C22: executeWithTools calls the executor, and so the sandbox, only with
\* tool names it was given: list_files and read_file in the planning phase,
\* whatever names the model puts in its tool calls.
OnlyGivenToolsExecuted ==
  loop.pc # "off" => loop.executed \subseteq GivenTools

(***************************************************************************)
(* createPlan applied to one answer of the planning call, one analysis and *)
(* one prompt focus, and the plan run() hands to implementPlan.            *)
(***************************************************************************)
Analyses ==
  [backendFiles : BackendChoices, frontendFiles : FrontendChoices,
   keyFiles : KeyChoices]

PlanInit ==
  /\ AgentParked
  /\ box = NoCall /\ pathCall = NoCall /\ loop = NoCall
  /\ \E ans \in PlanAnswers, an \in Analyses, focus \in BOOLEAN \X BOOLEAN :
       calc = [pc |-> "createPlan", ans |-> ans, analysis |-> an,
               focus |-> focus, plan |-> NoPlan, implemented |-> NoPlan]

\* const plan = yield* this.createPlan(prompt, analysis, allFiles)
CalcCreatePlan ==
  /\ calc.pc = "createPlan"
  /\ calc' = [calc EXCEPT !.pc = "git_branch",
                          !.plan = CreatePlan(calc.ans, calc.analysis, calc.focus)]
  /\ UNCHANGED << agentVars, box, pathCall, loop >>

\* run() after the plan: the branch is created, then implementPlan(plan, ...)
CalcImplement ==
  /\ calc.pc = "git_branch"
  /\ \E branchOk \in BOOLEAN :
       calc' = [calc EXCEPT !.pc = IF branchOk THEN "implement" ELSE "error",
                            !.implemented = IF branchOk THEN calc.plan ELSE @]
  /\ UNCHANGED << agentVars, box, pathCall, loop >>

PlanNext == CalcCreatePlan \/ CalcImplement

PlanSpec == PlanInit /\ [][PlanNext]_vars

\* the first n entries of list, all of them if there are fewer
FirstAtMost(list, n) == [i \in 1..(IF Len(list) < n THEN Len(list) ELSE n) |-> list[i]]

\* the planning call failed or its answer held no JSON object that parses
PlanningFailed ==
  calc.pc \in {"git_branch", "implement", "error"}
    /\ calc.ans.kind \in {"api_error", "no_json", "bad_json"}

\* a backend-focused prompt on a repository with more than three backend
\* files, planned by fallback and handed to implementPlan
BackendFallbackImplemented ==
  /\ PlanningFailed /\ calc.pc = "implement"
  /\ calc.focus[1] /\ Len(calc.analysis.backendFiles) > 3

\* C23: when the planning call fails or its answer has no parseable JSON
\* object, createPlan returns a plan with no new files whose filesToModify
\* are the first at most 3 backendFiles for a backend-focused prompt with
\* backend files, else the first at most 3 frontendFiles for a
\* frontend-focused prompt with frontend files, else the first at most 3
\* keyFiles; and that plan is the one implementPlan is called with.
FallbackPlanAsSpecified ==
  PlanningFailed =>
    LET an == calc.analysis
        source == IF calc.focus[1] /\ Len(an.backendFiles) > 0 THEN an.backendFiles
                  ELSE IF calc.focus[2] /\ Len(an.frontendFiles) > 0 THEN an.frontendFiles
                  ELSE an.keyFiles
    IN  /\ calc.plan.set
        /\ calc.plan.newFiles = << >>
        /\ calc.plan.filesToModify = FirstAtMost(source, 3)
        /\ calc.pc = "implement" => calc.implemented = calc.plan

\* the resume request has been handed a sandbox and has not finished with it
Resuming(r) == req[r].pc \in {"git_push", "prDetails", "createPR", "finally"}

\* run() is between its first tool call and its finally block
RunInProgress == runPc \notin {"initialize", "finally", "done"}

\* C24: no two callers operate on the sandbox of a session at once: at most
\* one resume request holds it at a time, and while run() is in progress
\* nobody else (the idle sweep) has torn its sandbox down.
OneCallerPerSandbox ==
  /\ \A r1, r2 \in Requests : (Resuming(r1) /\ Resuming(r2)) => r1 = r2
  /\ RunInProgress => sb[AgentSb].cleanups = 0

\* the types the claim enumerates
Enumerated ==
  {"start", "sandbox_create", "progress", "analyze", "plan", "implement",
   "tool_call", "tool_error", "file_change", "pr_create", "pr_created",
   "pause_for_verification", "complete", "error", "debug"}

\* every event of run() and of the resume requests has a type in types and,
\* if it carries a progress value, an integer from 0 to 100
EventsWithin(types) ==
  LET Fine(e) == /\ e.type \in types
                 /\ "progress" \in DOMAIN e => e.progress \in 0..100
  IN  /\ \A i \in 1..Len(events) : Fine(events[i])
      /\ \A r \in Requests : \A i \in 1..Len(req[r].events) : Fine(req[r].events[i])

\* C25 as claimed: every event emitted by run() and by
\* continueAfterVerification() has a type of the enumeration start,
\* sandbox_create, progress, analyze, plan, implement, tool_call, tool_error,
\* file_change, pr_create, pr_created, pause_for_verification, complete,
\* error, debug, and every progress value it carries is an integer between 0
\* and 100.
EventTypesEnumerated == EventsWithin(Enumerated)

\* a run paused for verification, having announced its analysis
AnalysedRunPaused ==
  /\ runPc = "done"
  /\ Count(events, "analysis_update") = 1
  /\ Count(events, "pause_for_verification") = 1

\* C25 as amended: the same with analysis_update added to the enumeration.
EventTypesDeclared == EventsWithin(Enumerated \cup {"analysis_update"})

\* a step in which op is invoked
Invokes(op) == calls'[op] > calls[op]

\* evs reports no error
NoError(evs) == Count(evs, "error") = 0

\* the stream evs has announced the pull request, which it does once
\* git_push has returned success
PushSucceeded(evs) == Count(evs, "pr_create") = 1 /\ NoError(evs)

\* what holds before each step that invokes a destructive operation
DestructiveOrder ==
  /\ Invokes("git_branch") =>
       /\ cloneResult = "ok" /\ calls["clone_repository"] = 1
       /\ plan.set /\ Count(events, "plan") >= 1
       /\ NoError(events)
  /\ Invokes("implement_tools") =>
       calls["git_branch"] = 1 /\ NoError(events)
  /\ Invokes("git_push") =>
       /\ calls["implement_tools"] = 1
       /\ calls["git_add"] = calls["git_commit"]
       /\ NoError(events)
       /\ req' # req => Count(events, "pause_for_verification") = 1
  /\ Invokes("createPullRequest") =>
       /\ calls["git_push"] >= 1
       /\ req' = req => PushSucceeded(events)
       /\ \A r \in Requests : req'[r] # req[r] => PushSucceeded(req[r].events)

\* request r has been received and its stream is not closed
InFlight(r) == req[r].pc \notin {"idle", "done"}

\* no two resume requests are ever in flight together
ResumesSequential ==
  [](\A r, q \in Requests : r # q => ~(InFlight(r) /\ InFlight(q)))

BranchPushPrAtMostOnce ==
  \A op \in {"git_branch", "git_push", "createPullRequest"} : calls[op] <= 1

AbortedInCommitPhase ==
  runPc = "finally" /\ commitPhase.status # "none" /\ ~NoError(events)

OnlyListingAbortsAnalysis ==
  (runPc \in {"finally", "done"} /\ Count(events, "analyze") >= 2)
    => Count(events, "analysis_update") = 1 /\ Count(events, "plan") >= 1

\* the git_push calls of run() itself, each announced by the progress event
\* 'Pushing changes to GitHub...'
PushesOfRun == Cardinality({i \in 1..Len(events) : events[i] = EvP("progress", 90)})

\* request r was answered 'Invalid request body' or 'Agent for session ...
\* not found'
Rejected(r) ==
  /\ req[r].events # << >>
  /\ req[r].events[1].type = "error"
  /\ HasWord(req[r].events[1].msg, "Invalid") \/ HasWord(req[r].events[1].msg, "found")

\* a resume request found no agent for its session
ResumeFoundNoAgent ==
  \E r \in Requests : Rejected(r) /\ HasWord(req[r].events[1].msg, "found")

\* C33: a resume request whose session has no registered agent, or whose
\* body fails validation, produces exactly one error event, closes the
\* stream, and performs no sandbox tool call, no git_push and no
\* createPullRequest.
RejectedResumeDoesNothing ==
  \A r \in Requests :
    Rejected(r) =>
      /\ req[r].pc = "done" /\ Len(req[r].events) = 1
      /\ ~req[r].entered /\ req[r].branch = NoBranch
      /\ req[r].made = 0 /\ req[r].tornDown = 0
      /\ (\A q \in Requests : q # r => req[q].pc = "idle") =>
           /\ calls["git_push"] = PushesOfRun
           /\ calls["createPullRequest"] = Count(events, "pr_create")

\* request r got past validation and agent lookup, so that runContinuation
\* ran for it, and runContinuation has returned
ContinuationFinished(r) == req[r].pc = "done" /\ ~Rejected(r)

\* C34: once runContinuation has finished for a session, whether with
\* complete, with an error event or with an exception, the registry
\* activeAgents holds no agent for that session any more, so that a later
\* publish request is answered 'not found'.
ContinuationEvictsAgent ==
  \A r \in Requests : ContinuationFinished(r) => ~AgentFor(SessionId)

\* C35: whatever the interleaving of concurrent getSandbox / createSandbox
\* calls for one session id, a sandbox stored in the manager's map under
\* that id is never replaced by another one: at most one sandbox is
\* provisioned for the id and every caller receives that one.
SandboxNeverOverwritten ==
  [][\A s \in {SessionId} :
       (sandboxes[s].has /\ sandboxes'[s].has)
         => sandboxes'[s].sandbox = sandboxes[s].sandbox]_vars

\* C39: the idle sweep of the SandboxManager does not tear down the
\* sandbox of a session whose run() or resume is still executing; the tool
\* calls of the owning agent count as activity, so an entry is removed only
\* when the session is idle: run() has not begun or has ended, and no
\* resume is in flight.
SweepSparesRunningSession ==
  [][(sandboxes[SessionId].has /\ ~sandboxes'[SessionId].has)
       => (runPc \in {"initialize", "done"} /\ \A r \in Requests : ~InFlight(r))]_vars

(***************************************************************************)
(* The commit phase of run() applied to one result of git_status, of       *)
(* git_add and of git_commit.                                              *)
(***************************************************************************)
ToolResults == {"ok", "fail", "throw"}

\* what git_status, git_add and git_commit return: hasChanges is the value
\* of result.data?.hasChanges, skipped that of commitResult.data?.skipped
CommitInputs ==
  [status : ToolResults, hasChanges : {"true", "false", "absent"},
   add : ToolResults, commit : ToolResults, skipped : BOOLEAN,
   verificationMode : BOOLEAN]

CommitInit ==
  /\ AgentParked
  /\ box = NoCall /\ pathCall = NoCall /\ loop = NoCall
  /\ \E given \in CommitInputs :
       calc = [pc |-> "checkForChanges", given |-> given, hasChanges |-> FALSE,
               invoked |-> << >>, error |-> << >>]

\* const hasChanges = yield* this.checkForChanges(); if (hasChanges) { ...
CalcCheckForChanges ==
  /\ calc.pc = "checkForChanges"
  /\ LET hasChanges == checkForChanges(calc.given.status, calc.given.hasChanges = "true")
     IN  calc' = [calc EXCEPT !.hasChanges = hasChanges,
                              !.pc = IF hasChanges THEN "git_add" ELSE "committed"]
  /\ UNCHANGED << agentVars, box, pathCall, loop >>

\* addResult = await this.runTool('git_add', ...); if (!addResult.success) throw
CalcGitAdd ==
  /\ calc.pc = "git_add"
  /\ calc' = [calc EXCEPT
       !.invoked = Append(@, "git_add"),
       !.pc = IF calc.given.add = "ok" THEN "git_commit" ELSE "aborted",
       !.error = CASE calc.given.add = "ok" -> << >>
                   [] calc.given.add = "fail" -> <<"Failed", "to", "stage", "changes">>
                   [] calc.given.add = "throw" -> <<"tool-error">>]
  /\ UNCHANGED << agentVars, box, pathCall, loop >>

\* commitResult = await this.runTool('git_commit', ...) and its test
CalcGitCommit ==
  /\ calc.pc = "git_commit"
  /\ LET g == calc.given
         error == IF g.commit = "throw" THEN <<"tool-error">>
                  ELSE IF CommitIsError(g.commit = "ok", g.skipped)
                       THEN <<"Failed", "to", "commit", "changes">>
                       ELSE << >>
     IN  calc' = [calc EXCEPT !.invoked = Append(@, "git_commit"),
                              !.error = error,
                              !.pc = IF error = << >> THEN "committed" ELSE "aborted"]
  /\ UNCHANGED << agentVars, box, pathCall, loop >>

\* if (this.verificationMode) { ... pause ... return } ... git_push
CalcAfterCommit ==
  /\ calc.pc = "committed"
  /\ calc' = [calc EXCEPT !.pc = IF calc.given.verificationMode THEN "pause"
                                 ELSE "git_push"]
  /\ UNCHANGED << agentVars, box, pathCall, loop >>

CommitNext == CalcCheckForChanges \/ CalcGitAdd \/ CalcGitCommit \/ CalcAfterCommit

CommitSpec == CommitInit /\ [][CommitNext]_vars

\* checkForChanges has returned
StatusChecked ==
  calc.pc \in {"git_add", "git_commit", "committed", "aborted", "pause", "git_push"}

\* the run has gone on to the pause/publish branch, without an error
WentOn == calc.pc \in {"committed", "pause", "git_push"} /\ calc.error = << >>

\* git_status succeeded and reported hasChanges other than true
ReportedClean ==
  calc.given.status = "ok" /\ calc.given.hasChanges # "true"

\* git_status succeeded without hasChanges and the run paused for verification
CleanStatusPaused ==
  /\ calc.pc = "pause"
  /\ calc.given.status = "ok" /\ calc.given.hasChanges = "absent"

\* C27: in the commit phase, a git_status that succeeds and reports
\* hasChanges other than true leads to the pause/publish branch with neither
\* git_add nor git_commit invoked; a git_status that reports changes, throws
\* or returns success=false is followed by git_add and, git_add having
\* returned success, by git_commit; a git_commit result carrying
\* data.skipped is not an error.
CommitPhaseAsSpecified ==
  StatusChecked =>
    /\ ReportedClean => calc.invoked = << >> /\ WentOn
    /\ ~ReportedClean =>
         IF calc.pc = "git_add" THEN calc.invoked = << >>
         ELSE IF calc.given.add # "ok" THEN calc.invoked = <<"git_add">>
         ELSE IF calc.pc = "git_commit" THEN calc.invoked = <<"git_add">>
         ELSE calc.invoked = <<"git_add", "git_commit">>
    /\ (Len(calc.invoked) = 2 /\ calc.given.commit # "throw" /\ calc.given.skipped)
         => WentOn

(***************************************************************************)
(* The project root analyzeRepository derives from the configFiles of the  *)
(* structural analysis.  A path is the sequence of its '/'-separated       *)
(* segments, the last one being the file name.                             *)
(***************************************************************************)
DirNames == {"backend", "web"}

ManifestNames == {"package.json"}

Dirs == UNION { [1..n -> DirNames] : n \in 0..MaxDepth }

ConfigPaths == { d \o << m >> : d \in Dirs, m \in ManifestNames }

ConfigFileLists == UNION { [1..n -> ConfigPaths] : n \in 0..MaxConfigFiles }

\* the directory '.'
Dot == << "." >>

\* path.dirname of a relative path
dirname(p) == IF Len(p) <= 1 THEN Dot ELSE SubSeq(p, 1, Len(p) - 1)

\* a.split('/').length
depth(dir) == Len(dir)

\* Array.prototype.map(f => path.dirname(f))
RECURSIVE mapDirname(_)
mapDirname(files) ==
  IF files = << >> THEN << >>
  ELSE << dirname(Head(files)) >> \o mapDirname(Tail(files))

\* Array.prototype.filter(dir => dir !== '.')
RECURSIVE filterNotDot(_)
filterNotDot(dirs) ==
  IF dirs = << >> THEN << >>
  ELSE (IF Head(dirs) # Dot THEN << Head(dirs) >> ELSE << >>) \o filterNotDot(Tail(dirs))

\* dir put into a list sorted by depth, behind the entries that are not deeper
RECURSIVE insertByDepth(_, _)
insertByDepth(dir, sorted) ==
  IF sorted = << >> THEN << dir >>
  ELSE IF depth(Head(sorted)) <= depth(dir)
       THEN << Head(sorted) >> \o insertByDepth(dir, Tail(sorted))
       ELSE << dir >> \o sorted

\* Array.prototype.sort((a, b) => a.split('/').length - b.split('/').length),
\* which is stable
RECURSIVE sortByDepth(_)
sortByDepth(dirs) ==
  IF dirs = << >> THEN << >>
  ELSE insertByDepth(dirs[Len(dirs)], sortByDepth(SubSeq(dirs, 1, Len(dirs) - 1)))

\* let projectRoot = '.'; ... if (rootCandidates.length > 0) projectRoot = rootCandidates[0]
projectRoot(configFiles) ==
  LET rootCandidates == sortByDepth(filterNotDot(mapDirname(configFiles)))
  IN  IF Len(rootCandidates) > 0 THEN rootCandidates[1] ELSE Dot

RootInit ==
  /\ AgentParked
  /\ box = NoCall /\ pathCall = NoCall /\ loop = NoCall
  /\ \E configFiles \in ConfigFileLists :
       calc = [pc |-> "projectRoot", configFiles |-> configFiles, projectRoot |-> Dot]

CalcProjectRoot ==
  /\ calc.pc = "projectRoot"
  /\ calc' = [calc EXCEPT !.pc = "rooted", !.projectRoot = projectRoot(calc.configFiles)]
  /\ UNCHANGED << agentVars, box, pathCall, loop >>

RootNext == CalcProjectRoot

RootSpec == RootInit /\ [][RootNext]_vars

\* C30: the projectRoot computed by analyzeRepository is '.' whenever a
\* config file lies at the repository root or there is none, and otherwise
\* a directory of minimal depth among the directories of the config files.
ProjectRootIsShallowest ==
  calc.pc = "rooted" =>
    LET dirs == {dirname(calc.configFiles[i]) : i \in 1..Len(calc.configFiles)}
    IN  IF dirs = {} \/ Dot \in dirs
        THEN calc.projectRoot = Dot
        ELSE /\ calc.projectRoot \in dirs
             /\ \A d \in dirs : depth(calc.projectRoot) <= depth(d)

\* C31: a resume request that omits branchName pushes, and uses as the head
\* of the pull request, the branch recorded for the session at pause time
\* (the branchName of its pause_for_verification event), whatever happened
\* in the sandbox and whether or not the branch probe succeeds.
ResumePushesPausedBranch ==
  [][\A r \in Requests :
       (/\ req[r].pc = "probe" /\ req[r].branch = NoBranch
        /\ req'[r].pc \in {"git_push", "creating"})
         => /\ Count(events, "pause_for_verification") = 1
            /\ req'[r].branch = Last(events).data.branchName]_vars

(***************************************************************************)
(* One top-level call of modifyFile: what each generateCode call answers   *)
(* (code that validateGeneratedCode accepts, code it rejects, or an API    *)
(* error) and what write_file returns are fixed beforehand.                *)
(***************************************************************************)
MAX_RETRIES == 2

Generations == [1..MaxGenerations -> {"valid", "invalid", "throw"}]

ModifyInit ==
  /\ AgentParked
  /\ box = NoCall /\ pathCall = NoCall /\ loop = NoCall
  /\ \E gen \in Generations, write \in ToolResults :
       calc = [pc |-> "generateCode", gen |-> gen, write |-> write, retryCount |-> 0,
               attempts |-> << >>, generatedCode |-> 0, written |-> << >>]

\* a retry test that allows one more retry
ShouldRetryOnceMore(isValid, retryCount) == ~isValid /\ retryCount <= MAX_RETRIES

\* !validation.isValid && retryCount < MAX_RETRIES
ShouldRetry(isValid, retryCount) == ~isValid /\ retryCount < MAX_RETRIES

\* generateCode, validateGeneratedCode and the recursive call; generatedCode
\* is the number of the generation that produced the code
CalcGenerate ==
  /\ calc.pc = "generateCode"
  /\ Len(calc.attempts) < MaxGenerations
  /\ LET n == Len(calc.attempts) + 1
         answer == calc.gen[n]
     IN  IF answer = "throw"
         THEN calc' = [calc EXCEPT !.pc = "raised", !.attempts = Append(@, answer)]
         ELSE IF ShouldRetry(answer = "valid", calc.retryCount)
              THEN calc' = [calc EXCEPT !.attempts = Append(@, answer),
                                        !.retryCount = @ + 1]
              ELSE calc' = [calc EXCEPT !.attempts = Append(@, answer),
                                        !.generatedCode = n, !.pc = "write_file"]
  /\ UNCHANGED << agentVars, box, pathCall, loop >>

\* writeResult = await this.runTool('write_file', { path, content: generatedCode })
CalcWriteFile ==
  /\ calc.pc = "write_file"
  /\ calc' = [calc EXCEPT !.written = Append(@, calc.generatedCode),
                          !.pc = IF calc.write = "throw" THEN "raised" ELSE "returned"]
  /\ UNCHANGED << agentVars, box, pathCall, loop >>

ModifyNext == CalcGenerate \/ CalcWriteFile

ModifySpec == ModifyInit /\ [][ModifyNext]_vars

\* the call has ended
ModifyEnded == calc.pc \in {"returned", "raised"}

\* generateCode was invoked at most MAX_RETRIES + 1 times, and again only
\* after a generation that failed validation
GenerationsBounded ==
  /\ Len(calc.attempts) <= MAX_RETRIES + 1
  /\ \A k \in 1..(Len(calc.attempts) - 1) : calc.attempts[k] = "invalid"

\* the retry cap was exhausted: every generation allowed was rejected
CapExhausted ==
  /\ Len(calc.attempts) = MAX_RETRIES + 1
  /\ \A k \in 1..Len(calc.attempts) : calc.attempts[k] = "invalid"

Yielded == {"progress", "error", "complete", "pause_for_verification", "throw"}

\* run() returns after pause_for_verification and after complete, a throw
\* ends the generator, a pause is yielded in verification mode only, and an
\* error event is followed by the error events of the enclosing catch blocks
AgentStreams(vm) ==
  {s \in UNION {[1..n -> Yielded] : n \in 0..MaxEvents} :
     /\ \A i \in 1..Len(s) :
          /\ s[i] \in {"complete", "pause_for_verification", "throw"} => i = Len(s)
          /\ s[i] = "pause_for_verification" => vm
          /\ (i > 1 /\ s[i - 1] = "error") => s[i] \in {"error", "throw"}}

Op(op, arg) == [op |-> op, arg |-> arg]

StreamInit ==
  /\ AgentParked
  /\ box = NoCall /\ pathCall = NoCall /\ loop = NoCall
  /\ \E vm \in BOOLEAN :
       \E s \in AgentStreams(vm) :
         calc = [pc |-> "for_await", stream |-> s, verificationMode |-> vm, ops |-> << >>]

\* event.type === 'pause_for_verification' && verificationMode; the
\* sessionId of the event is the agent's, set in its constructor
ShouldRegister(type, vm) == type = "pause_for_verification" /\ vm

\* a loop that goes on after an error event
StopsAtComplete(type) == type = "complete"

\* event.type === 'complete' || event.type === 'error'
StopsAt(type) == type \in {"complete", "error"}

\* one turn of  for await (const event of stream)
CalcStreamEvent ==
  /\ calc.pc = "for_await"
  /\ IF calc.stream = << >>
     THEN calc' = [calc EXCEPT !.pc = "finally"]
     ELSE LET type == Head(calc.stream)
              registered == IF ShouldRegister(type, calc.verificationMode)
                            THEN << Op("register", SessionId) >> ELSE << >>
          IN  IF type = "throw"
              THEN calc' = [calc EXCEPT !.stream = Tail(@), !.pc = "finally",
                                        !.ops = Append(@, Op("error", "streamError"))]
              ELSE calc' = [calc EXCEPT
                              !.stream = Tail(@),
                              !.ops = @ \o registered \o << Op("enqueue", type) >>,
                              !.pc = IF type = "pause_for_verification" \/ StopsAt(type)
                                     THEN "finally" ELSE "for_await"]
  /\ UNCHANGED << agentVars, box, pathCall, loop >>

\* finally { controller.close() }; close() on a controller that was
\* errored raises a TypeError
CalcStreamFinally ==
  /\ calc.pc = "finally"
  /\ LET errored == \E i \in 1..Len(calc.ops) : calc.ops[i].op = "error"
     IN  calc' = [calc EXCEPT !.pc = "closed",
                              !.ops = Append(@, Op("close", IF errored THEN "TypeError"
                                                            ELSE "closed"))]
  /\ UNCHANGED << agentVars, box, pathCall, loop >>

StreamNext == CalcStreamEvent \/ CalcStreamFinally

StreamSpec == StreamInit /\ [][StreamNext]_vars

SESSION_TIMEOUT == 10 * 60 * 1000     \* TerminalSessionManager.SESSION_TIMEOUT (ms)
TermTickMs == 5 * 60 * 1000           \* one clock tick: five sweep intervals (ms)

TermIds == {"term-1", "term-2"}

NoTermSession == [has |-> FALSE, pty |-> 0, status |-> "none", lastActivity |-> 0]

TermReturned(op, id, result) == [op |-> op, id |-> id, result |-> result]

TermInit ==
  /\ AgentParked
  /\ box = NoCall /\ pathCall = NoCall /\ loop = NoCall
  /\ calc = [pc |-> "terminal", sessions |-> [t \in TermIds |-> NoTermSession],
             alive |-> {}, spawned |-> 0, timers |-> {}, now |-> 0,
             last |-> TermReturned("constructor", "none", FALSE)]

\* a closeSession that removes the entry and leaves the shell running
closeSessionKeepsPty(m, id) ==
  IF m.sessions[id].has
  THEN [m EXCEPT !.sessions[id] = NoTermSession]
  ELSE m

\* closeSession: ptyProcess.kill(), status = 'closed', sessions.delete; an
\* error of kill() is caught and the entry is deleted all the same
closeSession(m, id) ==
  IF m.sessions[id].has
  THEN [m EXCEPT !.alive = @ \ {m.sessions[id].pty}, !.sessions[id] = NoTermSession]
  ELSE m

\* createSession: close the existing session, spawn, sessions.set,
\* setTimeout; a spawn that throws leaves the call after the close
TermCreate(id) ==
  /\ calc.pc = "terminal"
  /\ calc.spawned < MaxPtys
  /\ LET closed == closeSession(calc, id)
         pty == calc.spawned + 1
     IN  \E ok \in BOOLEAN :
           IF ok
           THEN calc' = [closed EXCEPT
                           !.spawned = pty,
                           !.alive = @ \cup {pty},
                           !.sessions[id] = [has |-> TRUE, pty |-> pty, status |-> "active",
                                             lastActivity |-> calc.now],
                           !.timers = @ \cup {[id |-> id, due |-> calc.now + SESSION_TIMEOUT]},
                           !.last = TermReturned("createSession", id, TRUE)]
           ELSE calc' = [closed EXCEPT !.last = TermReturned("createSession", id, FALSE)]
  /\ UNCHANGED << agentVars, box, pathCall, loop >>

\* getSession
TermGet(id) ==
  /\ calc.pc = "terminal"
  /\ calc' = IF calc.sessions[id].has
             THEN [calc EXCEPT !.sessions[id].lastActivity = calc.now,
                               !.last = TermReturned("getSession", id, TRUE)]
             ELSE [calc EXCEPT !.last = TermReturned("getSession", id, FALSE)]
  /\ UNCHANGED << agentVars, box, pathCall, loop >>

\* writeToSession and resizeSession, alike but for the call on the pty
TermUse(id) ==
  /\ calc.pc = "terminal"
  /\ \E op \in {"writeToSession", "resizeSession"} :
       calc' = IF calc.sessions[id].has /\ calc.sessions[id].status = "active"
               THEN [calc EXCEPT !.sessions[id].lastActivity = calc.now,
                                 !.last = TermReturned(op, id, TRUE)]
               ELSE [calc EXCEPT !.last = TermReturned(op, id, FALSE)]
  /\ UNCHANGED << agentVars, box, pathCall, loop >>

\* closeSession called from outside
TermClose(id) ==
  /\ calc.pc = "terminal"
  /\ calc' = [closeSession(calc, id) EXCEPT
                !.last = TermReturned("closeSession", id, calc.sessions[id].has)]
  /\ UNCHANGED << agentVars, box, pathCall, loop >>

\* the handler of a setTimeout of createSession, SESSION_TIMEOUT after the
\* call:  if (this.sessions.has(sessionId)) this.closeSession(sessionId)
TermTimer ==
  /\ calc.pc = "terminal"
  /\ \E t \in calc.timers :
       /\ calc.now >= t.due
       /\ calc' = [closeSession(calc, t.id) EXCEPT
                     !.timers = @ \ {t},
                     !.last = TermReturned("setTimeout", t.id, calc.sessions[t.id].has)]
  /\ UNCHANGED << agentVars, box, pathCall, loop >>

TermExpired(m, id) ==
  m.sessions[id].has /\ m.now - m.sessions[id].lastActivity > SESSION_TIMEOUT

RECURSIVE closeAll(_, _)
closeAll(m, ids) ==
  IF ids = {} THEN m
  ELSE LET id == CHOOSE x \in ids : TRUE
       IN  closeAll(closeSession(m, id), ids \ {id})

\* cleanupExpiredSessions, run by the setInterval of the constructor
TermSweep ==
  /\ calc.pc = "terminal"
  /\ LET expired == {id \in TermIds : TermExpired(calc, id)}
     IN  calc' = [closeAll(calc, expired) EXCEPT
                    !.last = TermReturned("cleanupExpiredSessions", "none", expired # {})]
  /\ UNCHANGED << agentVars, box, pathCall, loop >>

\* the clock; a timer that is due runs before the clock moves on
TermTick ==
  /\ calc.pc = "terminal"
  /\ calc.now < MaxTermTicks * TermTickMs
  /\ \A t \in calc.timers : calc.now < t.due
  /\ calc' = [calc EXCEPT !.now = @ + TermTickMs,
                          !.last = TermReturned("clock", "none", FALSE)]
  /\ UNCHANGED << agentVars, box, pathCall, loop >>

TermNext ==
  \/ \E id \in TermIds : TermCreate(id)
  \/ \E id \in TermIds : TermGet(id)
  \/ \E id \in TermIds : TermUse(id)
  \/ \E id \in TermIds : TermClose(id)
  \/ TermTimer \/ TermSweep \/ TermTick

TermSpec == TermInit /\ [][TermNext]_vars

\* every running shell belongs to exactly one entry of the map
AlivePtysOwned ==
  /\ \A p \in calc.alive : \E id \in TermIds : calc.sessions[id].has /\ calc.sessions[id].pty = p
  /\ \A id \in TermIds : calc.sessions[id].has => calc.sessions[id].pty \in calc.alive
  /\ \A a, b \in TermIds :
       (a # b /\ calc.sessions[a].has /\ calc.sessions[b].has)
         => calc.sessions[a].pty # calc.sessions[b].pty

\* what one call returns and changes, read off the step it takes
CallsAsSpecified ==
  LET id == calc'.last.id
      had == calc.sessions[id].has
      same == /\ calc'.sessions = calc.sessions /\ calc'.alive = calc.alive
              /\ calc'.timers = calc.timers
  IN  /\ calc'.last.op = "closeSession" =>
           /\ calc'.last.result = had
           /\ ~calc'.sessions[id].has
           /\ had => calc.sessions[id].pty \notin calc'.alive
           /\ ~had => same
      /\ calc'.last.op \in {"writeToSession", "resizeSession"} =>
           /\ calc'.last.result = had
           /\ ~had => same
      /\ (calc'.last.op = "createSession" /\ had) =>
           /\ calc.sessions[id].pty \notin calc'.alive
           /\ calc'.sessions[id].has => calc'.sessions[id].pty # calc.sessions[id].pty

TimersCloseIdleSessionsOnly ==
  [][\A id \in TermIds :
       (/\ calc'.last.op \in {"setTimeout", "cleanupExpiredSessions"}
        /\ calc.sessions[id].has /\ ~calc'.sessions[id].has)
         => calc.now - calc.sessions[id].lastActivity >= SESSION_TIMEOUT]_vars

====
